---------------------------- MODULE Spec2Model ----------------------------
(***************************************************************************)
(* The streaming relay of src/lib/streaming.ts: createStreamResponse (the  *)
(* frame encoder), the byte transport between it and its reader, and       *)
(* StreamProcessor.processStream (the frame decoder).                      *)
(*                                                                         *)
(* A JavaScript string is a sequence of code points (naturals), a          *)
(* Uint8Array a sequence of bytes (0..255).  TextEncoder, TextDecoder,     *)
(* JSON.stringify and JSON.parse are computed on those sequences.          *)
(***************************************************************************)
EXTENDS Integers, Sequences, FiniteSets, TLC

(***************************************************************************)
(* Bounds of the model.                                                    *)
(***************************************************************************)
MaxUnits == 2        \* units a generation source yields before it ends
MaxChunk == 2        \* a read delivers 1..MaxChunk bytes, or all that is in flight
MaxLines == 2        \* lines of a byte stream not written by the encoder

(***************************************************************************)
(* The characters of the text deltas: line feed, which JSON escapes, and   *)
(* e-acute, which UTF-8 encodes in two bytes.                              *)
(***************************************************************************)
LF == 10
Alphabet == {LF, 233}

\* the concatenation of a sequence of sequences
RECURSIVE Flatten(_)
Flatten(ss) ==
  IF ss = <<>> THEN <<>>
  ELSE IF Len(ss) = 1 THEN ss[1]
  ELSE LET h == Len(ss) \div 2
       IN  Flatten(SubSeq(ss, 1, h)) \o Flatten(SubSeq(ss, h + 1, Len(ss)))

StartsWith(s, p) == Len(s) >= Len(p) /\ SubSeq(s, 1, Len(p)) = p

(***************************************************************************)
(* JavaScript values: undefined, null, a boolean, a string, an object (a   *)
(* sequence of <<key, value>> members in source order).                    *)
(***************************************************************************)
Undefined == [t |-> "undefined", b |-> FALSE, s |-> <<>>, m |-> <<>>]
Null      == [t |-> "null", b |-> FALSE, s |-> <<>>, m |-> <<>>]
Bool(x)   == [t |-> "bool", b |-> x, s |-> <<>>, m |-> <<>>]
Str(x)    == [t |-> "str", b |-> FALSE, s |-> x, m |-> <<>>]
Obj(ms)   == [t |-> "obj", b |-> FALSE, s |-> <<>>, m |-> ms]

\* the property names of a frame, as strings
KeyContent == <<99, 111, 110, 116, 101, 110, 116>>
KeyDone    == <<100, 111, 110, 101>>
KeyError   == <<101, 114, 114, 111, 114>>

LitTrue  == <<116, 114, 117, 101>>
LitFalse == <<102, 97, 108, 115, 101>>
LitNull  == <<110, 117, 108, 108>>

\* ToBoolean
Truthy(v) ==
  CASE v.t = "bool" -> v.b
    [] v.t = "str"  -> v.s # <<>>
    [] v.t = "obj"  -> TRUE
    [] OTHER        -> FALSE

\* ToString, for the values a frame field can hold
ToStr(v) ==
  CASE v.t = "str"  -> v.s
    [] v.t = "bool" -> IF v.b THEN LitTrue ELSE LitFalse
    [] v.t = "null" -> LitNull
    [] v.t = "obj"  -> <<91, 111, 98, 106, 101, 99, 116, 32, 79, 98, 106, 101, 99, 116, 93>>
    [] OTHER        -> <<117, 110, 100, 101, 102, 105, 110, 101, 100>>

\* data.key: the last member named key; undefined when there is none or
\* when data is a primitive
RECURSIVE GetMember(_, _)
GetMember(ms, key) ==
  IF ms = <<>> THEN Undefined
  ELSE IF ms[Len(ms)][1] = key THEN ms[Len(ms)][2]
  ELSE GetMember(SubSeq(ms, 1, Len(ms) - 1), key)

Get(v, key) == IF v.t = "obj" THEN GetMember(v.m, key) ELSE Undefined


(***************************************************************************)
(* TextEncoder.encode: UTF-8 bytes of a string.                            *)
(***************************************************************************)
EncodeCodePoint(cp) ==
  IF cp < 128 THEN <<cp>>
  ELSE IF cp < 2048 THEN <<192 + (cp \div 64), 128 + (cp % 64)>>
  ELSE IF cp < 65536
    THEN <<224 + (cp \div 4096), 128 + ((cp \div 64) % 64), 128 + (cp % 64)>>
  ELSE <<240 + (cp \div 262144), 128 + ((cp \div 4096) % 64),
         128 + ((cp \div 64) % 64), 128 + (cp % 64)>>

TextEncode(str) == Flatten([i \in 1..Len(str) |-> EncodeCodePoint(str[i])])

(***************************************************************************)
(* TextDecoder: the UTF-8 decoder.  Its state is the code point under      *)
(* construction, the continuation bytes still needed and the range the     *)
(* next byte must lie in; need = 0 is the state between characters.        *)
(***************************************************************************)
Replacement == 65533

DecoderInit == [cp |-> 0, need |-> 0, lo |-> 128, hi |-> 191]

\* one byte: <<new state, code points emitted>>
DecodeByte(st, byte) ==
  IF st.need = 0
  THEN CASE byte <= 127 -> <<DecoderInit, <<byte>>>>
         [] byte >= 194 /\ byte <= 223 ->
              <<[cp |-> byte - 192, need |-> 1, lo |-> 128, hi |-> 191], <<>>>>
         [] byte >= 224 /\ byte <= 239 ->
              <<[cp |-> byte - 224, need |-> 2,
                 lo |-> IF byte = 224 THEN 160 ELSE 128,
                 hi |-> IF byte = 237 THEN 159 ELSE 191], <<>>>>
         [] byte >= 240 /\ byte <= 244 ->
              <<[cp |-> byte - 240, need |-> 3,
                 lo |-> IF byte = 240 THEN 144 ELSE 128,
                 hi |-> IF byte = 244 THEN 143 ELSE 191], <<>>>>
         [] OTHER -> <<DecoderInit, <<Replacement>>>>
  ELSE IF byte < st.lo \/ byte > st.hi
    THEN \* the sequence is broken: U+FFFD, and the byte is decoded afresh
         CASE byte <= 127 -> <<DecoderInit, <<Replacement, byte>>>>
           [] byte >= 194 /\ byte <= 223 ->
                <<[cp |-> byte - 192, need |-> 1, lo |-> 128, hi |-> 191],
                  <<Replacement>>>>
           [] byte >= 224 /\ byte <= 239 ->
                <<[cp |-> byte - 224, need |-> 2,
                   lo |-> IF byte = 224 THEN 160 ELSE 128,
                   hi |-> IF byte = 237 THEN 159 ELSE 191], <<Replacement>>>>
           [] byte >= 240 /\ byte <= 244 ->
                <<[cp |-> byte - 240, need |-> 3,
                   lo |-> IF byte = 240 THEN 144 ELSE 128,
                   hi |-> IF byte = 244 THEN 143 ELSE 191], <<Replacement>>>>
           [] OTHER -> <<DecoderInit, <<Replacement, Replacement>>>>
  ELSE IF st.need = 1
    THEN <<DecoderInit, <<st.cp * 64 + (byte - 128)>>>>
  ELSE <<[cp |-> st.cp * 64 + (byte - 128), need |-> st.need - 1,
          lo |-> 128, hi |-> 191], <<>>>>

\* the bytes of in = [st, bytes] in order, the state after the first half
\* being the state before the second: [st, out], the new state and the code
\* points emitted
RECURSIVE DecodeBytes(_)
DecodeBytes(in) ==
  IF in.st.need = 0 /\ \A i \in 1..Len(in.bytes) : in.bytes[i] <= 127
  THEN [st |-> in.st, out |-> in.bytes]       \* ASCII only: each byte is a character
  ELSE IF Len(in.bytes) = 1
    THEN LET one == DecodeByte(in.st, in.bytes[1])
         IN  [st |-> one[1], out |-> one[2]]
  ELSE LET h == Len(in.bytes) \div 2
           l == DecodeBytes([st |-> in.st, bytes |-> SubSeq(in.bytes, 1, h)])
           r == DecodeBytes([st |-> l.st,
                             bytes |-> SubSeq(in.bytes, h + 1, Len(in.bytes))])
       IN  [st |-> r.st, out |-> l.out \o r.out]

\* variant: decoder.decode(value) without {stream: true}; the end of the
\* chunk is the end of the input, a character left incomplete becomes
\* U+FFFD and the state is reset
DecodeFlush(st, bytes) ==
  LET r == DecodeBytes([st |-> st, bytes |-> bytes])
  IN  [st |-> DecoderInit,
       out |-> IF r.st.need = 0 THEN r.out ELSE Append(r.out, Replacement)]

\* decoder.decode(value, {stream: true}): an incomplete character stays in
\* the decoder's state for the next call
DecodeStream(st, bytes) == DecodeBytes([st |-> st, bytes |-> bytes])

(***************************************************************************)
(* JSON.stringify of a string, a boolean, null or an object of those.      *)
(***************************************************************************)
HexDigit(d) == IF d < 10 THEN 48 + d ELSE 87 + d

\* variant: no character is escaped
QuoteCodePointRaw(cp) == <<cp>>

QuoteCodePoint(cp) ==
  CASE cp = 8  -> <<92, 98>>
    [] cp = 9  -> <<92, 116>>
    [] cp = 10 -> <<92, 110>>
    [] cp = 12 -> <<92, 102>>
    [] cp = 13 -> <<92, 114>>
    [] cp = 34 -> <<92, 34>>
    [] cp = 92 -> <<92, 92>>
    [] cp < 32 /\ cp \notin {8, 9, 10, 12, 13} ->
         <<92, 117, 48, 48, HexDigit(cp \div 16), HexDigit(cp % 16)>>
    [] OTHER   -> <<cp>>

QuoteBody(str) == Flatten([i \in 1..Len(str) |-> QuoteCodePoint(str[i])])

QuoteJSONString(str) == <<34>> \o QuoteBody(str) \o <<34>>

RECURSIVE JSONStringify(_)
RECURSIVE StringifyMembers(_)
StringifyMembers(ms) ==
  IF ms = <<>> THEN <<>>
  ELSE QuoteJSONString(Head(ms)[1]) \o <<58>> \o JSONStringify(Head(ms)[2])
       \o (IF Len(ms) > 1 THEN <<44>> ELSE <<>>) \o StringifyMembers(Tail(ms))

JSONStringify(v) ==
  CASE v.t = "str"  -> QuoteJSONString(v.s)
    [] v.t = "bool" -> IF v.b THEN LitTrue ELSE LitFalse
    [] v.t = "obj"  -> <<123>> \o StringifyMembers(v.m) \o <<125>>
    [] OTHER        -> LitNull

(***************************************************************************)
(* JSON.parse, for texts made of strings, booleans, null and objects.  A   *)
(* text outside the JSON grammar is a SyntaxError: ok = FALSE.             *)
(***************************************************************************)
ParseFail == [ok |-> FALSE, pos |-> 0, v |-> Undefined]

IsWs(c) == c \in {32, 9, 10, 13}

RECURSIVE SkipWs(_, _)
SkipWs(s, i) == IF i <= Len(s) /\ IsWs(s[i]) THEN SkipWs(s, i + 1) ELSE i

LitAt(s, i, lit) == i + Len(lit) - 1 <= Len(s) /\ SubSeq(s, i, i + Len(lit) - 1) = lit

HexVal(c) ==
  CASE c >= 48 /\ c <= 57  -> c - 48
    [] c >= 97 /\ c <= 102 -> c - 87
    [] c >= 65 /\ c <= 70  -> c - 55
    [] OTHER -> -1

\* the number of backslashes that immediately precede position j
BackslashRun(s, j) ==
  CHOOSE n \in 0..(j - 1) :
    /\ \A k \in 1..n : s[j - k] = 92
    /\ n = j - 1 \/ s[j - n - 1] # 92

\* a backslash that starts an escape sequence
EscStart(s, p) == s[p] = 92 /\ BackslashRun(s, p) % 2 = 0

\* the escape sequence that starts at p is one of the grammar
EscValid(s, p) ==
  /\ p < Len(s)
  /\ s[p + 1] \in {34, 92, 47, 98, 102, 110, 114, 116, 117}
  /\ s[p + 1] = 117 => p + 5 <= Len(s) /\ \A k \in 2..5 : HexVal(s[p + k]) >= 0

EscChar(s, p) ==
  CASE s[p + 1] = 98  -> 8
    [] s[p + 1] = 102 -> 12
    [] s[p + 1] = 110 -> 10
    [] s[p + 1] = 114 -> 13
    [] s[p + 1] = 116 -> 9
    [] s[p + 1] = 117 -> HexVal(s[p + 2]) * 4096 + HexVal(s[p + 3]) * 256
                         + HexVal(s[p + 4]) * 16 + HexVal(s[p + 5])
    [] OTHER -> s[p + 1]

\* position p belongs to an escape sequence that started before it
InEscape(s, p) ==
  \/ p > 1 /\ EscStart(s, p - 1)
  \/ \E q \in (p - 5)..(p - 2) : q >= 1 /\ EscStart(s, q) /\ s[q + 1] = 117

\* the characters between the quotes of a string literal
Unescape(body) ==
  IF \A p \in 1..Len(body) : body[p] # 92 THEN body   \* no escape sequence
  ELSE
  Flatten([p \in 1..Len(body) |->
             IF EscStart(body, p) THEN <<EscChar(body, p)>>
             ELSE IF InEscape(body, p) THEN <<>>
             ELSE <<body[p]>>])

\* a string literal whose opening quote is at i - 1: it ends at the first
\* quote that no backslash escapes; control characters and escapes outside
\* the grammar are syntax errors
ParseStringBody(s, i) ==
  LET Literal(body, j) ==
        IF /\ \A p \in 1..Len(body) : body[p] >= 32
           /\ \A p \in 1..Len(body) : EscStart(body, p) => EscValid(body, p)
        THEN [ok |-> TRUE, pos |-> j + 1, v |-> Str(Unescape(body))]
        ELSE ParseFail
      EndsAt(j) == Literal(SubSeq(s, i, j - 1), j)
      Closed(closing) ==
        IF closing = {} THEN ParseFail
        ELSE EndsAt(CHOOSE c \in closing : \A d \in closing : c <= d)
  IN  Closed({j \in i..Len(s) : s[j] = 34 /\ BackslashRun(s, j) % 2 = 0})

RECURSIVE ParseValue(_, _)
RECURSIVE ParseMembers(_, _, _)

\* the members of an object from position i (at a key) on, up to the closing brace
ParseMembers(s, i, acc) ==
  LET AfterMember(n, acc2) ==
        IF n > Len(s) THEN ParseFail
        ELSE IF s[n] = 125 THEN [ok |-> TRUE, pos |-> n + 1, v |-> Obj(acc2)]
        ELSE IF s[n] = 44 THEN ParseMembers(s, SkipWs(s, n + 1), acc2)
        ELSE ParseFail
      AfterValue(key, val) ==
        IF ~val.ok THEN ParseFail
        ELSE AfterMember(SkipWs(s, val.pos), Append(acc, <<key, val.v>>))
      AfterColon(key, c) ==
        IF c > Len(s) \/ s[c] # 58 THEN ParseFail
        ELSE AfterValue(key, ParseValue(s, c + 1))
      AfterKey(k) ==
        IF ~k.ok THEN ParseFail ELSE AfterColon(k.v.s, SkipWs(s, k.pos))
  IN  IF i > Len(s) \/ s[i] # 34 THEN ParseFail
      ELSE AfterKey(ParseStringBody(s, i + 1))

ParseValue(s, i) ==
  LET Object(k) ==
        IF k <= Len(s) /\ s[k] = 125
        THEN [ok |-> TRUE, pos |-> k + 1, v |-> Obj(<<>>)]
        ELSE ParseMembers(s, k, <<>>)
      At(j) ==
        IF j > Len(s) THEN ParseFail
        ELSE IF s[j] = 34 THEN ParseStringBody(s, j + 1)
        ELSE IF s[j] = 123 THEN Object(SkipWs(s, j + 1))
        ELSE IF LitAt(s, j, LitTrue)  THEN [ok |-> TRUE, pos |-> j + 4, v |-> Bool(TRUE)]
        ELSE IF LitAt(s, j, LitFalse) THEN [ok |-> TRUE, pos |-> j + 5, v |-> Bool(FALSE)]
        ELSE IF LitAt(s, j, LitNull)  THEN [ok |-> TRUE, pos |-> j + 4, v |-> Null]
        ELSE ParseFail
  IN  At(SkipWs(s, i))

JSONParse(s) ==
  LET Whole(r) ==
        IF r.ok /\ SkipWs(s, r.pos) > Len(s) THEN [ok |-> TRUE, v |-> r.v]
        ELSE [ok |-> FALSE, v |-> Undefined]
  IN  Whole(ParseValue(s, 1))

(***************************************************************************)
(* String.prototype.split('\n').                                           *)
(***************************************************************************)
\* the pieces of a string are those of its halves, the last piece of the
\* first half continuing in the first piece of the second
RECURSIVE Split(_)
Split(str) ==
  IF \A i \in 1..Len(str) : str[i] # LF THEN <<str>>
  ELSE IF Len(str) = 1 THEN << <<>>, <<>> >>
  ELSE LET h == Len(str) \div 2
           l == Split(SubSeq(str, 1, h))
           r == Split(SubSeq(str, h + 1, Len(str)))
       IN  SubSeq(l, 1, Len(l) - 1) \o << l[Len(l)] \o r[1] >> \o Tail(r)

(***************************************************************************)
(* State.                                                                  *)
(***************************************************************************)
VARIABLES
  encPc,       \* start(controller): "run" in the for-await loop, "closed" after
               \* controller.close(), "escaped" when an exception left start,
               \* "none" when the bytes come from another writer
  nPulled,     \* units the encoder has pulled from the generator
  logUnits,    \* the run keeps the log of the units pulled
  pulled,      \* the log: the units pulled, in order
  deltas,      \* the non-empty texts of the units pulled, in order
  srcEnd,      \* how the generator ended: "open", "returned", "threw"
  srcErr,      \* the value the generator threw
  written,     \* the arguments of the controller.enqueue calls that succeeded
  closeCalls,  \* number of controller.close() calls
  pipe,        \* bytes enqueued and not yet read
  wire,        \* all bytes put on the transport
  tClosed,     \* the writer has closed the transport
  aborted,     \* the reading side has cancelled the transport
  decPc,       \* processStream: "called" before line 15, "reading", "resolved",
               \* "rejected"
  buffer,      \* StreamProcessor.buffer
  decoder,     \* the state of StreamProcessor.decoder
  fullText,    \* the accumulator
  calls,       \* the handler calls made, in order
  parsed,      \* the strings handed to JSON.parse, in order
  result,      \* the settlement of the promise: its value or its error message
  released,    \* number of reader.releaseLock() calls
  readErr,     \* the value the failing reader.read() rejected with
  charCut,     \* some chunk has ended inside a multi-byte character
  hasBody,     \* response.body is not null
  readers,     \* number of response.body.getReader() calls
  other,       \* the processStream call that is not running now: its locals
  sameInstance, \* both calls are made on one StreamProcessor
  hook,        \* useGenAI: its state (isLoading, isStreaming, error, response) and
               \* the chatStream call in progress
  messages,    \* Chat: the messages displayed, in order
  db,          \* the database: users, api_keys, custom_routes, contexts
  inflight,    \* the requests to the admin API that are being handled
  answered     \* the requests the server has answered, in order

vars == <<encPc, nPulled, logUnits, pulled, deltas, srcEnd, srcErr, written, closeCalls, pipe, wire,
          tClosed, aborted, decPc, buffer, decoder, fullText, calls, parsed, result,
          released, readErr, charCut, hasBody, readers, other, sameInstance, hook,
          messages, db, inflight, answered>>

encVars == <<encPc, nPulled, logUnits, pulled, deltas, srcEnd, srcErr, written, closeCalls>>
decVars == <<decPc, buffer, decoder, fullText, calls, parsed, result, released, readErr,
             charCut>>
instVars == <<hasBody, readers, other, sameInstance>>
uiVars == <<hook, messages>>
srvVars == <<db, inflight, answered>>

(***************************************************************************)
(* createStreamResponse.                                                   *)
(***************************************************************************)
\* a response unit of the generator: whether candidates[0] and
\* content.parts[0] exist, and the text of that part
Unit(c, p, txt) == [candidates |-> c, parts |-> p, text |-> txt]

Texts == {<<>>} \cup {<<c>> : c \in Alphabet}

Units == {Unit(FALSE, FALSE, Undefined), Unit(TRUE, FALSE, Undefined),
          Unit(TRUE, TRUE, Undefined)}
         \cup {Unit(TRUE, TRUE, Str(t)) : t \in Texts}

\* chunk.candidates?.[0]?.content?.parts?.[0]?.text
ExtractText(chunk) ==
  IF chunk.candidates /\ chunk.parts THEN chunk.text ELSE Undefined

\* the values a generator throws: an Error with a message, or something else
Thrown == {[isError |-> TRUE, message |-> <<98>>],
           [isError |-> TRUE, message |-> <<>>],
           [isError |-> FALSE, message |-> <<>>]}

NoError == [isError |-> FALSE, message |-> <<>>]

DataPrefix == <<100, 97, 116, 97, 58, 32>>                    \* 'data: '
StreamingFailed == <<83, 116, 114, 101, 97, 109, 105, 110, 103, 32,
                     102, 97, 105, 108, 101, 100>>            \* 'Streaming failed'

\* `data: ${JSON.stringify(obj)}\n\n`, encoded
FrameBytes(obj) == TextEncode(DataPrefix \o JSONStringify(obj) \o <<LF, LF>>)

ContentFrame(text) == Obj(<< <<KeyContent, Str(text)>>, <<KeyDone, Bool(FALSE)>> >>)
\* variant: the completion frame does not say done
DoneFrameOpen == Obj(<< <<KeyContent, Str(<<>>)>>, <<KeyDone, Bool(FALSE)>> >>)
DoneFrame          == Obj(<< <<KeyContent, Str(<<>>)>>, <<KeyDone, Bool(TRUE)>> >>)
ErrorFrame(msg)    == Obj(<< <<KeyError, Str(msg)>>, <<KeyDone, Bool(TRUE)>> >>)

\* variant: the message of the error is not used
ErrorMessageGeneric(error) == StreamingFailed

\* error instanceof Error ? error.message : 'Streaming failed'
ErrorMessage(error) == IF error.isError THEN error.message ELSE StreamingFailed

\* controller.enqueue throws a TypeError once the stream has been cancelled
EnqueueThrows == aborted

\* controller.enqueue(bytes) on a readable stream
Enqueue(bytes) ==
  /\ written' = Append(written, bytes)
  /\ pipe' = pipe \o bytes
  /\ wire' = wire \o bytes

\* variant: the close is left out
EnqueueNoClose(bytes) ==
  /\ Enqueue(bytes)
  /\ UNCHANGED <<closeCalls, tClosed>>
  /\ encPc' = "closed"

\* controller.enqueue(bytes); controller.close()
EnqueueAndClose(bytes) ==
  /\ Enqueue(bytes)
  /\ closeCalls' = closeCalls + 1
  /\ tClosed' = TRUE
  /\ encPc' = "closed"

\* the catch block entered because an enqueue of the try block threw: its own
\* enqueue throws as well, and the exception leaves start
\* variant: the failure of a write is swallowed and the routine goes on
CatchGoesOn ==
  /\ UNCHANGED <<encPc, written, pipe, wire, closeCalls, tClosed>>

CatchEscapes ==
  /\ encPc' = "escaped"
  /\ UNCHANGED <<written, pipe, wire, closeCalls, tClosed>>

\* variant: a frame is written for an empty text as well
EncYieldEmptyToo ==
  /\ encPc = "run"
  /\ nPulled < MaxUnits
  /\ \E chunk \in Units :
       LET text == ExtractText(chunk) IN
       /\ nPulled' = nPulled + 1
       /\ pulled' = IF logUnits THEN Append(pulled, chunk) ELSE pulled
       /\ IF text.t = "str"
          THEN IF EnqueueThrows
               THEN /\ CatchEscapes
                    /\ srcEnd' = "abandoned"
                    /\ UNCHANGED deltas
               ELSE /\ Enqueue(FrameBytes(ContentFrame(text.s)))
                    /\ deltas' = Append(deltas, text.s)
                    /\ UNCHANGED <<encPc, closeCalls, tClosed, srcEnd>>
          ELSE UNCHANGED <<encPc, deltas, written, pipe, wire, closeCalls, tClosed,
                           srcEnd>>
  /\ UNCHANGED <<logUnits, srcErr, aborted>>
  /\ UNCHANGED decVars
  /\ UNCHANGED instVars
  /\ UNCHANGED uiVars
  /\ UNCHANGED srvVars

\* one turn of the for-await loop: the generator yields a unit
EncYield ==
  /\ encPc = "run"
  /\ nPulled < MaxUnits
  /\ \E chunk \in Units :
       LET text == ExtractText(chunk) IN
       /\ nPulled' = nPulled + 1
       /\ pulled' = IF logUnits THEN Append(pulled, chunk) ELSE pulled
       /\ IF Truthy(text)
          THEN IF EnqueueThrows
               THEN /\ CatchEscapes
                    /\ srcEnd' = "abandoned"
                    /\ UNCHANGED deltas
               ELSE /\ Enqueue(FrameBytes(ContentFrame(text.s)))
                    /\ deltas' = Append(deltas, text.s)
                    /\ UNCHANGED <<encPc, closeCalls, tClosed, srcEnd>>
          ELSE UNCHANGED <<encPc, deltas, written, pipe, wire, closeCalls, tClosed,
                           srcEnd>>
  /\ UNCHANGED <<logUnits, srcErr, aborted>>
  /\ UNCHANGED decVars
  /\ UNCHANGED instVars
  /\ UNCHANGED uiVars
  /\ UNCHANGED srvVars

\* the generator returns: the completion frame, then close
EncReturn ==
  /\ encPc = "run"
  /\ srcEnd' = "returned"
  /\ IF EnqueueThrows THEN CatchEscapes ELSE EnqueueAndClose(FrameBytes(DoneFrame))
  /\ UNCHANGED <<nPulled, logUnits, pulled, deltas, srcErr, aborted>>
  /\ UNCHANGED decVars
  /\ UNCHANGED instVars
  /\ UNCHANGED uiVars
  /\ UNCHANGED srvVars

\* the generator throws: the catch block writes the error frame, then close
EncThrow ==
  /\ encPc = "run"
  /\ \E error \in Thrown :
       /\ srcEnd' = "threw"
       /\ srcErr' = error
       /\ IF EnqueueThrows
          THEN CatchEscapes
          ELSE EnqueueAndClose(FrameBytes(ErrorFrame(ErrorMessage(error))))
  /\ UNCHANGED <<nPulled, logUnits, pulled, deltas, aborted>>
  /\ UNCHANGED decVars
  /\ UNCHANGED instVars
  /\ UNCHANGED uiVars
  /\ UNCHANGED srvVars


(***************************************************************************)
(* StreamProcessor.processStream.                                          *)
(***************************************************************************)
Call(cb, arg) == [cb |-> cb, arg |-> arg]

\* variant: the content replaces the accumulator
AccumulateOverwrite(text, content) == ToStr(content)

\* fullText += data.content
Accumulate(text, content) == text \o ToStr(content)

\* variant: a done frame calls onComplete and the loop goes on
TryBodyNoReturn(st, line) ==
  LET Threw(s1) == [st |-> s1, thrown |-> TRUE]
      OnDone(s1, done) ==
        IF Truthy(done)
        THEN [s1 EXCEPT !.calls = Append(@, Call("onComplete", s1.fullText))]
        ELSE s1
      OnContent(s1, content) ==
        IF Truthy(content)
        THEN [s1 EXCEPT !.fullText = Accumulate(@, content),
                        !.calls = Append(@, Call("onChunk", ToStr(content)))]
        ELSE s1
      OnData(s1, data) ==
        IF data.t = "null" THEN Threw(s1)
        ELSE IF Truthy(Get(data, KeyError)) THEN Threw(s1)
        ELSE [st |-> OnDone(OnContent(s1, Get(data, KeyContent)), Get(data, KeyDone)),
              thrown |-> FALSE]
      OnParsed(s1, json) == IF ~json.ok THEN Threw(s1) ELSE OnData(s1, json.v)
      Parse(payload) ==
        OnParsed([st EXCEPT !.parsed = Append(@, payload)], JSONParse(payload))
  IN  Parse(SubSeq(line, Len(DataPrefix) + 1, Len(line)))

\* the body of the inner try for one line that starts with 'data: ', run on
\* the loop state st = [fullText, calls, parsed, returned]; parsed is the log
\* of the strings handed to JSON.parse; thrown tells that the body threw
\* (JSON.parse, a property read of null, or line 40), st being the state at
\* the throw
TryBody(st, line) ==
  LET Threw(s1) == [st |-> s1, thrown |-> TRUE]
      \* lines 48-51
      OnDone(s1, done) ==
        IF Truthy(done)
        THEN [s1 EXCEPT !.calls = Append(@, Call("onComplete", s1.fullText)),
                        !.returned = TRUE]
        ELSE s1
      \* lines 43-46
      OnContent(s1, content) ==
        IF Truthy(content)
        THEN [s1 EXCEPT !.fullText = Accumulate(@, content),
                        !.calls = Append(@, Call("onChunk", ToStr(content)))]
        ELSE s1
      \* lines 39-51 on the value that JSON.parse returned
      OnData(s1, data) ==
        IF data.t = "null" THEN Threw(s1)
        ELSE IF Truthy(Get(data, KeyError)) THEN Threw(s1)
        ELSE [st |-> OnDone(OnContent(s1, Get(data, KeyContent)), Get(data, KeyDone)),
              thrown |-> FALSE]
      OnParsed(s1, json) == IF ~json.ok THEN Threw(s1) ELSE OnData(s1, json.v)
      \* line 37
      Parse(payload) ==
        OnParsed([st EXCEPT !.parsed = Append(@, payload)], JSONParse(payload))
  IN  Parse(SubSeq(line, Len(DataPrefix) + 1, Len(line)))

\* variant: an exception of the inner try ends the loop
HandleLineFatal(st, line) ==
  LET Caught(r) == IF r.thrown THEN [r.st EXCEPT !.returned = TRUE] ELSE r.st
  IN  IF ~StartsWith(line, DataPrefix) THEN st ELSE Caught(TryBody(st, line))

\* one iteration of `for (const line of lines)`: the catch of the inner try
\* continues with the next line, and what the body did before it threw stays
HandleLine(st, line) ==
  LET Caught(r) == r.st
  IN  IF ~StartsWith(line, DataPrefix) THEN st ELSE Caught(TryBody(st, line))

RECURSIVE ProcessLines(_, _)

\* variant: the lines of a chunk are taken last first
ProcessLinesLastFirst(st, lines) ==
  IF lines = <<>> \/ st.returned THEN st
  ELSE ProcessLines(HandleLine(st, lines[Len(lines)]), SubSeq(lines, 1, Len(lines) - 1))

\* the for loop, left by the return of line 50
ProcessLines(st, lines) ==
  IF lines = <<>> \/ st.returned THEN st
  ELSE ProcessLines(HandleLine(st, Head(lines)), Tail(lines))

\* variant: the segment after the last line feed is handled as a line too
ProcessChunkEager(dec, value) ==
  LET AfterLoop(d, lines, st) ==
        [buffer |-> lines[Len(lines)], decoder |-> d.st, fullText |-> st.fullText,
         calls |-> st.calls, parsed |-> st.parsed, returned |-> st.returned]
      Loop(d, lines) ==
        AfterLoop(d, lines,
                  ProcessLines([fullText |-> dec.fullText, calls |-> dec.calls,
                                parsed |-> dec.parsed, returned |-> FALSE],
                               lines))
      Decoded(d) == Loop(d, Split(dec.buffer \o d.out))
  IN  Decoded(DecodeStream(dec.decoder, value))

\* lines 28-57 for one chunk, on
\* dec = [buffer, decoder, fullText, calls, parsed, returned]
ProcessChunk(dec, value) ==
  LET AfterLoop(d, lines, st) ==
        [buffer |-> lines[Len(lines)], decoder |-> d.st, fullText |-> st.fullText,
         calls |-> st.calls, parsed |-> st.parsed, returned |-> st.returned]
      Loop(d, lines) ==
        AfterLoop(d, lines,
                  ProcessLines([fullText |-> dec.fullText, calls |-> dec.calls,
                                parsed |-> dec.parsed, returned |-> FALSE],
                               SubSeq(lines, 1, Len(lines) - 1)))
      Decoded(d) == Loop(d, Split(dec.buffer \o d.out))
  IN  Decoded(DecodeStream(dec.decoder, value))

\* the sizes of the chunk the next read may deliver
ChunkSizes == (1..MaxChunk \cup {Len(pipe)}) \cap 1..Len(pipe)

\* variant: line 50 leaves the for loop only, and the call reads on
DecReadOn ==
  /\ decPc = "reading"
  /\ ~aborted
  /\ \E k \in ChunkSizes :
       \E dec \in {ProcessChunk([buffer |-> buffer, decoder |-> decoder,
                                 fullText |-> fullText, calls |-> calls,
                                 parsed |-> parsed, returned |-> FALSE],
                                SubSeq(pipe, 1, k))} :
           /\ pipe' = SubSeq(pipe, k + 1, Len(pipe))
           /\ buffer' = dec.buffer
           /\ decoder' = dec.decoder
           /\ fullText' = dec.fullText
           /\ calls' = dec.calls
           /\ parsed' = dec.parsed
           /\ charCut' = (charCut \/ dec.decoder.need > 0)
           /\ UNCHANGED <<decPc, result, released>>
  /\ UNCHANGED <<readErr, wire, tClosed, aborted>>
  /\ UNCHANGED encVars
  /\ UNCHANGED instVars
  /\ UNCHANGED uiVars
  /\ UNCHANGED srvVars

\* reader.read() delivers a chunk
DecRead ==
  /\ decPc = "reading"
  /\ ~aborted
  /\ \E k \in ChunkSizes :
       \E dec \in {ProcessChunk([buffer |-> buffer, decoder |-> decoder,
                                 fullText |-> fullText, calls |-> calls,
                                 parsed |-> parsed, returned |-> FALSE],
                                SubSeq(pipe, 1, k))} :
           /\ pipe' = SubSeq(pipe, k + 1, Len(pipe))
           /\ buffer' = dec.buffer
           /\ decoder' = dec.decoder
           /\ fullText' = dec.fullText
           /\ calls' = dec.calls
           /\ parsed' = dec.parsed
           /\ charCut' = (charCut \/ dec.decoder.need > 0)
           /\ IF dec.returned
              THEN /\ decPc' = "resolved"
                   /\ result' = dec.fullText
                   /\ released' = released + 1
              ELSE UNCHANGED <<decPc, result, released>>
  /\ UNCHANGED <<readErr, wire, tClosed, aborted>>
  /\ UNCHANGED encVars
  /\ UNCHANGED instVars
  /\ UNCHANGED uiVars
  /\ UNCHANGED srvVars

\* variant: the end of the data completes without calling onComplete
DecEofSilent ==
  /\ decPc = "reading"
  /\ ~aborted
  /\ pipe = <<>>
  /\ tClosed
  /\ result' = fullText
  /\ decPc' = "resolved"
  /\ released' = released + 1
  /\ UNCHANGED <<calls, buffer, decoder, fullText, parsed, readErr, charCut, pipe, wire, tClosed,
                 aborted>>
  /\ UNCHANGED encVars
  /\ UNCHANGED instVars
  /\ UNCHANGED uiVars
  /\ UNCHANGED srvVars

\* reader.read() reports done: lines 26, 60, 61
DecEof ==
  /\ decPc = "reading"
  /\ ~aborted
  /\ pipe = <<>>
  /\ tClosed
  /\ calls' = Append(calls, Call("onComplete", fullText))
  /\ result' = fullText
  /\ decPc' = "resolved"
  /\ released' = released + 1
  /\ UNCHANGED <<buffer, decoder, fullText, parsed, readErr, charCut, pipe, wire, tClosed,
                 aborted>>
  /\ UNCHANGED encVars
  /\ UNCHANGED instVars
  /\ UNCHANGED uiVars
  /\ UNCHANGED srvVars

AbortMessage == <<97, 98, 111, 114, 116, 101, 100>>                  \* 'aborted'
UnknownStreamingError == <<85, 110, 107, 110, 111, 119, 110, 32, 115, 116, 114, 101,
                           97, 109, 105, 110, 103, 32, 101, 114, 114, 111, 114>>

\* what reader.read() may reject with: an Error, or a value that is not one
ReadErrors == {[isError |-> TRUE, message |-> AbortMessage], NoError}

\* variant: the value caught is passed on as it is
StreamErrorAsIs(error) == error.message

\* error instanceof Error ? error : new Error('Unknown streaming error')
StreamError(error) == IF error.isError THEN error.message ELSE UnknownStreamingError

\* variant: the rejection leaves the reader locked
DecReadFailLocked ==
  /\ decPc = "reading"
  /\ aborted
  /\ \E error \in ReadErrors :
       /\ readErr' = error
       /\ calls' = Append(calls, Call("onError", StreamError(error)))
       /\ result' = StreamError(error)
  /\ decPc' = "rejected"
  /\ UNCHANGED <<buffer, decoder, fullText, parsed, released, charCut, pipe, wire, tClosed,
                 aborted>>
  /\ UNCHANGED encVars
  /\ UNCHANGED instVars
  /\ UNCHANGED uiVars
  /\ UNCHANGED srvVars

\* reader.read() rejects: lines 62-65, and the finally of lines 66-68
DecReadFail ==
  /\ decPc = "reading"
  /\ aborted
  /\ \E error \in ReadErrors :
       /\ readErr' = error
       /\ calls' = Append(calls, Call("onError", StreamError(error)))
       /\ result' = StreamError(error)
  /\ decPc' = "rejected"
  /\ released' = released + 1
  /\ UNCHANGED <<buffer, decoder, fullText, parsed, charCut, pipe, wire, tClosed, aborted>>
  /\ UNCHANGED encVars
  /\ UNCHANGED instVars
  /\ UNCHANGED uiVars
  /\ UNCHANGED srvVars

\* the reading side cancels the transport (the request is aborted, the
\* connection is lost): reads reject and enqueues throw from then on
Abort ==
  /\ ~aborted
  /\ encPc = "run" \/ decPc = "reading"
  /\ aborted' = TRUE
  /\ UNCHANGED <<pipe, wire, tClosed>>
  /\ UNCHANGED encVars
  /\ UNCHANGED decVars
  /\ UNCHANGED instVars
  /\ UNCHANGED uiVars
  /\ UNCHANGED srvVars

(***************************************************************************)
(* The relay: a generator feeds createStreamResponse, whose bytes cross    *)
(* the transport in chunks of any size to processStream on a new           *)
(* StreamProcessor.                                                        *)
(***************************************************************************)
\* no second call
NoCall == [decPc |-> "none", pipe |-> <<>>, wire |-> <<>>, tClosed |-> FALSE,
           fullText |-> <<>>, calls |-> <<>>, parsed |-> <<>>, result |-> <<>>,
           released |-> 0, buffer |-> <<>>, decoder |-> DecoderInit]

\* the page is not open: no hook, no message
NoHook == [pc |-> "none"]
NoChat == hook = NoHook /\ messages = <<>>

\* no server: an empty database and no request
NoServer ==
  /\ db = [users |-> {}, api_keys |-> {}, custom_routes |-> {}, contexts |-> {}]
  /\ inflight = {}
  /\ answered = <<>>

\* one call, its reader acquired
OneCall ==
  /\ hasBody = TRUE
  /\ readers = 1
  /\ other = NoCall
  /\ sameInstance = FALSE
  /\ NoChat
  /\ NoServer

DecInit ==
  /\ decPc = "reading"
  /\ buffer = <<>>
  /\ decoder = DecoderInit
  /\ fullText = <<>>
  /\ calls = <<>>
  /\ parsed = <<>>
  /\ result = <<>>
  /\ released = 0
  /\ readErr = NoError
  /\ charCut = FALSE

Init ==
  /\ encPc = "run"
  /\ nPulled = 0
  /\ logUnits = FALSE
  /\ pulled = <<>>
  /\ deltas = <<>>
  /\ srcEnd = "open"
  /\ srcErr = NoError
  /\ written = <<>>
  /\ closeCalls = 0
  /\ pipe = <<>>
  /\ wire = <<>>
  /\ tClosed = FALSE
  /\ aborted = FALSE
  /\ DecInit
  /\ OneCall

Next == EncYield \/ EncReturn \/ EncThrow \/ DecRead \/ DecEof \/ DecReadFail \/ Abort

Spec == Init /\ [][Next]_vars


(***************************************************************************)
(* processStream on a byte stream that another writer produced: lines of   *)
(* the wire format in any order, conforming or not, then end-of-data.  The *)
(* stream is delivered to its end: every read succeeds.                    *)
(***************************************************************************)
\* 'data: {"content":"a"' and two line feeds: the JSON text is cut short
MalformedLine ==
  TextEncode(DataPrefix \o <<123>> \o QuoteJSONString(KeyContent) \o <<58>>
             \o QuoteJSONString(<<97>>) \o <<LF, LF>>)

\* ': x' and a line feed: a line that does not start with 'data: '
CommentLine == <<58, 32, 120, LF>>

ForeignLines ==
  { FrameBytes(ContentFrame(<<233>>)),
    FrameBytes(DoneFrame),
    FrameBytes(Obj(<< <<KeyContent, Str(<<97>>)>>, <<KeyDone, Bool(TRUE)>> >>)),
    FrameBytes(ErrorFrame(<<98>>)),
    MalformedLine,
    CommentLine }

\* what may follow the last line feed: nothing, or a frame without its line feeds
ForeignTails ==
  { <<>>, TextEncode(DataPrefix \o JSONStringify(ContentFrame(<<97>>))) }

ForeignStreams ==
  { Flatten(ls) \o tail :
      ls \in UNION {[1..n -> ForeignLines] : n \in 0..MaxLines},
      tail \in ForeignTails }

InitDec ==
  /\ encPc = "none"
  /\ nPulled = 0
  /\ logUnits = FALSE
  /\ pulled = <<>>
  /\ deltas = <<>>
  /\ srcEnd = "open"
  /\ srcErr = NoError
  /\ written = <<>>
  /\ closeCalls = 0
  /\ pipe \in ForeignStreams
  /\ wire = pipe
  /\ tClosed = TRUE
  /\ aborted = FALSE
  /\ DecInit
  /\ OneCall

NextDec == DecRead \/ DecEof

SpecDec == InitDec /\ [][NextDec]_vars

(***************************************************************************)
(* processStream from its first line: the response may have no body.       *)
(***************************************************************************)
ResponseBodyIsNull == <<82, 101, 115, 112, 111, 110, 115, 101, 32, 98, 111, 100, 121, 32,
                        105, 115, 32, 110, 117, 108, 108>>          \* 'Response body is null'

\* variant: a response without a body is read as an empty stream
DecNoBodyEmpty ==
  /\ decPc = "called"
  /\ ~hasBody
  /\ decPc' = "resolved"
  /\ calls' = Append(calls, Call("onComplete", <<>>))
  /\ result' = <<>>
  /\ UNCHANGED <<buffer, decoder, fullText, parsed, released, readErr, charCut>>
  /\ UNCHANGED <<pipe, wire, tClosed, aborted, hasBody, readers, other, sameInstance>>
  /\ UNCHANGED encVars
  /\ UNCHANGED uiVars
  /\ UNCHANGED srvVars

\* lines 15-17: the throw is outside the try, so that nothing is reported
\* to the handlers and no reader exists to release
DecNoBody ==
  /\ decPc = "called"
  /\ ~hasBody
  /\ decPc' = "rejected"
  /\ result' = ResponseBodyIsNull
  /\ UNCHANGED <<buffer, decoder, fullText, calls, parsed, released, readErr, charCut>>
  /\ UNCHANGED <<pipe, wire, tClosed, aborted, hasBody, readers, other, sameInstance>>
  /\ UNCHANGED encVars
  /\ UNCHANGED uiVars
  /\ UNCHANGED srvVars

\* lines 19-20: the reader is acquired and the accumulator starts empty
DecGetReader ==
  /\ decPc = "called"
  /\ hasBody
  /\ decPc' = "reading"
  /\ readers' = readers + 1
  /\ fullText' = <<>>
  /\ UNCHANGED <<buffer, decoder, calls, parsed, result, released, readErr, charCut>>
  /\ UNCHANGED <<pipe, wire, tClosed, aborted, hasBody, other, sameInstance>>
  /\ UNCHANGED encVars
  /\ UNCHANGED uiVars
  /\ UNCHANGED srvVars

\* a response without a body carries no bytes
InitCall ==
  /\ encPc = "none"
  /\ nPulled = 0
  /\ logUnits = FALSE
  /\ pulled = <<>>
  /\ deltas = <<>>
  /\ srcEnd = "open"
  /\ srcErr = NoError
  /\ written = <<>>
  /\ closeCalls = 0
  /\ hasBody \in BOOLEAN
  /\ pipe \in IF hasBody THEN ForeignStreams ELSE {<<>>}
  /\ wire = pipe
  /\ tClosed = hasBody
  /\ aborted = FALSE
  /\ decPc = "called"
  /\ buffer = <<>>
  /\ decoder = DecoderInit
  /\ fullText = <<>>
  /\ calls = <<>>
  /\ parsed = <<>>
  /\ result = <<>>
  /\ released = 0
  /\ readErr = NoError
  /\ charCut = FALSE
  /\ readers = 0
  /\ other = NoCall
  /\ sameInstance = FALSE
  /\ NoChat
  /\ NoServer

NextCall == DecNoBody \/ DecGetReader \/ DecRead \/ DecEof

SpecCall == InitCall /\ [][NextCall]_vars

(***************************************************************************)
(* Two processStream calls in flight at once, on two StreamProcessors or   *)
(* on one.  A call runs from one await of reader.read() to the next        *)
(* without interruption; between two read cycles the other call may run.   *)
(* The locals of the call that is not running are kept in `other`; buffer  *)
(* and decoder are fields of the instance (lines 8 and 9), so that they go *)
(* with the call only when the calls have an instance each.                *)
(***************************************************************************)
\* the streams of the first call: a content frame, a completion frame
FirstStreams == { FrameBytes(ContentFrame(<<233>>)), FrameBytes(DoneFrame) }

\* the streams of the second call: 'x', the first byte of a two-byte
\* character
SecondStreams == { <<120>>, <<195>> }

\* a call that has acquired its reader and waits for its first read
NewCall(bytes) == [decPc |-> "reading", pipe |-> bytes, wire |-> bytes, tClosed |-> TRUE,
                   fullText |-> <<>>, calls |-> <<>>, parsed |-> <<>>, result |-> <<>>,
                   released |-> 0, buffer |-> <<>>, decoder |-> DecoderInit]

\* the event loop resumes the other call
Switch ==
  /\ other.decPc = "reading"
  /\ other' = [decPc |-> decPc, pipe |-> pipe, wire |-> wire, tClosed |-> tClosed,
               fullText |-> fullText, calls |-> calls, parsed |-> parsed,
               result |-> result, released |-> released,
               buffer |-> IF sameInstance THEN <<>> ELSE buffer,
               decoder |-> IF sameInstance THEN DecoderInit ELSE decoder]
  /\ decPc' = other.decPc
  /\ pipe' = other.pipe
  /\ wire' = other.wire
  /\ tClosed' = other.tClosed
  /\ fullText' = other.fullText
  /\ calls' = other.calls
  /\ parsed' = other.parsed
  /\ result' = other.result
  /\ released' = other.released
  /\ buffer' = IF sameInstance THEN buffer ELSE other.buffer
  /\ decoder' = IF sameInstance THEN decoder ELSE other.decoder
  /\ UNCHANGED <<readErr, charCut, aborted, hasBody, readers, sameInstance>>
  /\ UNCHANGED encVars
  /\ UNCHANGED uiVars
  /\ UNCHANGED srvVars

InitTwo ==
  /\ encPc = "none"
  /\ nPulled = 0
  /\ logUnits = FALSE
  /\ pulled = <<>>
  /\ deltas = <<>>
  /\ srcEnd = "open"
  /\ srcErr = NoError
  /\ written = <<>>
  /\ closeCalls = 0
  /\ pipe \in FirstStreams
  /\ wire = pipe
  /\ tClosed = TRUE
  /\ aborted = FALSE
  /\ DecInit
  /\ hasBody = TRUE
  /\ readers = 2
  /\ other \in {NewCall(bytes) : bytes \in SecondStreams}
  /\ sameInstance \in BOOLEAN
  /\ NoChat
  /\ NoServer

NextTwo == DecRead \/ DecEof \/ Switch

SpecTwo == InitTwo /\ [][NextTwo]_vars

(***************************************************************************)
(* One StreamProcessor used for a call after another: processStream is     *)
(* called again when the call before it has settled, and reset() is not    *)
(* called in between.  The first call may end by a completion frame, by    *)
(* the end of the data or by a read that rejects.                          *)
(***************************************************************************)
\* the streams of the first call: a completion frame with 'x' after it, a
\* frame without its line feeds, a content frame
EarlierStreams ==
  { FrameBytes(DoneFrame) \o <<120>>,
    TextEncode(DataPrefix \o JSONStringify(ContentFrame(<<97>>))),
    FrameBytes(ContentFrame(<<233>>)) }

\* the streams of the call that follows
LaterStreams == { FrameBytes(ContentFrame(<<233>>)), CommentLine }

\* processStream is called again: lines 19-20 make a new reader and a new
\* accumulator, and nothing touches this.buffer or this.decoder
DecCallAgain ==
  /\ decPc \in {"resolved", "rejected"}
  /\ other = NoCall
  /\ other' = [decPc |-> decPc, pipe |-> pipe, wire |-> wire, tClosed |-> tClosed,
               fullText |-> fullText, calls |-> calls, parsed |-> parsed,
               result |-> result, released |-> released,
               buffer |-> <<>>, decoder |-> DecoderInit]
  /\ \E bytes \in LaterStreams :
       /\ pipe' = bytes
       /\ wire' = bytes
  /\ tClosed' = TRUE
  /\ aborted' = FALSE
  /\ decPc' = "reading"
  /\ readers' = readers + 1
  /\ fullText' = <<>>
  /\ calls' = <<>>
  /\ parsed' = <<>>
  /\ result' = <<>>
  /\ released' = 0
  /\ readErr' = NoError
  /\ UNCHANGED <<buffer, decoder, charCut, hasBody, sameInstance>>
  /\ UNCHANGED encVars
  /\ UNCHANGED uiVars
  /\ UNCHANGED srvVars

InitAgain ==
  /\ encPc = "none"
  /\ nPulled = 0
  /\ logUnits = FALSE
  /\ pulled = <<>>
  /\ deltas = <<>>
  /\ srcEnd = "open"
  /\ srcErr = NoError
  /\ written = <<>>
  /\ closeCalls = 0
  /\ pipe \in EarlierStreams
  /\ wire = pipe
  /\ tClosed = TRUE
  /\ aborted = FALSE
  /\ DecInit
  /\ hasBody = TRUE
  /\ readers = 1
  /\ other = NoCall
  /\ sameInstance = TRUE
  /\ NoChat
  /\ NoServer

NextAgain == DecRead \/ DecEof \/ Abort \/ DecReadFail \/ DecCallAgain

SpecAgain == InitAgain /\ [][NextAgain]_vars

(***************************************************************************)
(* createStreamResponse on its own: the generator, the encoder and a       *)
(* reader that does nothing but cancel, the units pulled being logged.     *)
(***************************************************************************)
InitEnc ==
  /\ encPc = "run"
  /\ nPulled = 0
  /\ logUnits = TRUE
  /\ pulled = <<>>
  /\ deltas = <<>>
  /\ srcEnd = "open"
  /\ srcErr = NoError
  /\ written = <<>>
  /\ closeCalls = 0
  /\ pipe = <<>>
  /\ wire = <<>>
  /\ tClosed = FALSE
  /\ aborted = FALSE
  /\ DecInit
  /\ OneCall

NextEnc == EncYield \/ EncReturn \/ EncThrow \/ Abort

SpecEnc == InitEnc /\ [][NextEnc]_vars


(***************************************************************************)
(* useGenAI.chatStream, called by Chat.handleSend with the callbacks that  *)
(* Chat gives to the hook.                                                 *)
(***************************************************************************)
MaxMessages == 4     \* messages the chat displays: two per message sent

\* '/api/chat-stream'
ChatStreamUrl ==
  << 47, 97, 112, 105, 47, 99, 104, 97, 116, 45, 115, 116, 114, 101, 97,
     109 >>

\* '/api/chats/r', the endpoint of a custom route
RouteEndpoint ==
  << 47, 97, 112, 105, 47, 99, 104, 97, 116, 115, 47, 114 >>

\* 'Sorry, there was an error processing your message.'
SorryText ==
  << 83, 111, 114, 114, 121, 44, 32, 116, 104, 101, 114, 101, 32, 119, 97,
     115, 32, 97, 110, 32, 101, 114, 114, 111, 114, 32, 112, 114, 111, 99,
     101, 115, 115, 105, 110, 103, 32, 121, 111, 117, 114, 32, 109, 101,
     115, 115, 97, 103, 101, 46 >>

\* 'HTTP error! status: 500'
HttpErrorText ==
  << 72, 84, 84, 80, 32, 101, 114, 114, 111, 114, 33, 32, 115, 116, 97,
     116, 117, 115, 58, 32, 53, 48, 48 >>

\* 'No reader available'
NoReaderText ==
  << 78, 111, 32, 114, 101, 97, 100, 101, 114, 32, 97, 118, 97, 105, 108,
     97, 98, 108, 101 >>

\* 'Failed to fetch'
FailedToFetch ==
  << 70, 97, 105, 108, 101, 100, 32, 116, 111, 32, 102, 101, 116, 99, 104 >>

\* 'An error occurred'
AnErrorOccurred ==
  << 65, 110, 32, 101, 114, 114, 111, 114, 32, 111, 99, 99, 117, 114, 114,
     101, 100 >>

\* err instanceof Error ? err.message : 'An error occurred'
HookErrorMessage(err) == IF err.isError THEN err.message ELSE AnErrorOccurred

Message(role, content, streaming) ==
  [role |-> role, content |-> content, isStreaming |-> streaming]

\* Chat.tsx 101-117, 118-130, 131-149: the updates of the last message
ChatOnStreamChunk(msgs, chunk) ==
  IF msgs # <<>> /\ msgs[Len(msgs)].role = "assistant" /\ msgs[Len(msgs)].isStreaming
  THEN [msgs EXCEPT ![Len(msgs)].content = @ \o chunk]
  ELSE msgs

ChatOnStreamComplete(msgs, fullResponse) ==
  IF msgs # <<>> /\ msgs[Len(msgs)].role = "assistant"
  THEN [msgs EXCEPT ![Len(msgs)].isStreaming = FALSE,
                    ![Len(msgs)].content = fullResponse]
  ELSE msgs

ChatOnError(msgs, error) ==
  IF msgs # <<>> /\ msgs[Len(msgs)].role = "assistant" /\ msgs[Len(msgs)].isStreaming
  THEN [msgs EXCEPT ![Len(msgs)].content = SorryText,
                    ![Len(msgs)].isStreaming = FALSE]
  ELSE msgs

\* decoder.decode(value): the end of the chunk is the end of the input, and
\* a character left incomplete becomes U+FFFD
Decode(bytes) ==
  LET End(r) == IF r.st.need = 0 THEN r.out ELSE Append(r.out, Replacement)
  IN  End(DecodeBytes([st |-> DecoderInit, bytes |-> bytes]))

\* the body of the inner try (useGenAI.ts 126-142) for one line that starts
\* with 'data: ', on st = [fullResponse, response, calls, messages, returned]
HookTryBody(st, line) ==
  LET \* lines 138-142
      OnDone(s1, done) ==
        IF Truthy(done)
        THEN [s1 EXCEPT !.calls = @ \o << Call("onStreamComplete", s1.fullResponse),
                                          Call("onSuccess", s1.fullResponse) >>,
                        !.messages = ChatOnStreamComplete(@, s1.fullResponse),
                        !.returned = TRUE]
        ELSE s1
      \* lines 132-136
      OnContent(s1, content) ==
        IF Truthy(content)
        THEN [s1 EXCEPT !.fullResponse = @ \o ToStr(content),
                        !.response = Str(s1.fullResponse \o ToStr(content)),
                        !.calls = Append(@, Call("onStreamChunk", ToStr(content))),
                        !.messages = ChatOnStreamChunk(@, ToStr(content))]
        ELSE s1
      \* lines 128-142; the throw of line 129 is caught at line 143
      OnData(s1, data) ==
        IF data.t = "null" THEN s1
        ELSE IF Truthy(Get(data, KeyError)) THEN s1
        ELSE OnDone(OnContent(s1, Get(data, KeyContent)), Get(data, KeyDone))
      OnParsed(s1, json) == IF ~json.ok THEN s1 ELSE OnData(s1, json.v)
  IN  OnParsed(st, JSONParse(SubSeq(line, Len(DataPrefix) + 1, Len(line))))

RECURSIVE HookLines(_, _)

\* `for (const line of lines)`, left by the return of line 141
HookLines(st, lines) ==
  IF lines = <<>> \/ st.returned THEN st
  ELSE HookLines(IF StartsWith(Head(lines), DataPrefix)
                 THEN HookTryBody(st, Head(lines))
                 ELSE st,
                 Tail(lines))

\* lines 120-148 for one chunk: every segment of the chunk is taken as a line
HookChunk(st, value) == HookLines(st, Split(Decode(value)))

\* lines 152-160: the catch and the finally
HookCatch(h, err) ==
  [h EXCEPT !.pc = "rejected",
            !.error = Str(HookErrorMessage(err)),
            !.calls = Append(@, Call("onError", HookErrorMessage(err))),
            !.result = HookErrorMessage(err),
            !.isLoading = FALSE,
            !.isStreaming = FALSE]

\* variant: a return leaves the flags as they are
HookReturnBusy(h, text) == [h EXCEPT !.pc = "resolved", !.result = text]

\* lines 141 and 151, and the finally of lines 157-160
HookReturn(h, text) ==
  [h EXCEPT !.pc = "resolved", !.result = text, !.isLoading = FALSE,
            !.isStreaming = FALSE]

HookIdle ==
  [pc |-> "idle", isLoading |-> FALSE, isStreaming |-> FALSE, error |-> Null,
   response |-> Null, fullResponse |-> <<>>, calls |-> <<>>, result |-> <<>>,
   url |-> <<>>, endpoint |-> <<>>]

\* what the user has selected: the default route, a route of the list, a
\* route that is not in the list
Selections == {"default", "known", "unknown"}

\* Chat.tsx 238-245
EndpointOf(selectedRoute) ==
  IF selectedRoute = "known" THEN RouteEndpoint ELSE ChatStreamUrl

\* Chat.handleSend (205-252) with a text typed in, up to the fetch of
\* chatStream (useGenAI.ts 88-100)
HandleSend ==
  /\ hook.pc \in {"idle", "resolved", "rejected"}
  /\ ~hook.isLoading
  /\ Len(messages) + 2 <= MaxMessages
  /\ \E selectedRoute \in Selections :
       hook' = [hook EXCEPT !.pc = "fetching", !.isStreaming = TRUE,
                            !.isLoading = TRUE, !.error = Null,
                            !.response = Str(<<>>), !.fullResponse = <<>>,
                            !.calls = <<>>, !.result = <<>>,
                            !.url = ChatStreamUrl,
                            !.endpoint = EndpointOf(selectedRoute)]
  /\ messages' = messages \o << Message("user", <<104>>, FALSE),
                                Message("assistant", <<>>, TRUE) >>
  /\ pipe' = <<>>
  /\ wire' = <<>>
  /\ tClosed' = FALSE
  /\ UNCHANGED aborted
  /\ UNCHANGED encVars
  /\ UNCHANGED decVars
  /\ UNCHANGED instVars
  /\ UNCHANGED srvVars

\* what a failing call of the hook is left with: the catch runs the onError
\* of Chat
HookFails(err) ==
  /\ hook' = HookCatch(hook, err)
  /\ messages' = ChatOnError(messages, HookErrorMessage(err))
  /\ UNCHANGED <<pipe, wire, tClosed, aborted>>
  /\ UNCHANGED encVars
  /\ UNCHANGED decVars
  /\ UNCHANGED instVars
  /\ UNCHANGED srvVars

\* fetch rejects: the network has failed
FetchRejects ==
  /\ hook.pc = "fetching"
  /\ HookFails([isError |-> TRUE, message |-> FailedToFetch])

\* lines 102-104
FetchNotOk ==
  /\ hook.pc = "fetching"
  /\ HookFails([isError |-> TRUE, message |-> HttpErrorText])

\* lines 106-111: the response has no body
FetchNoReader ==
  /\ hook.pc = "fetching"
  /\ HookFails([isError |-> TRUE, message |-> NoReaderText])

\* the streams a response may carry: frames with and without a terminal
\* frame, an error frame, a line that is not JSON, nothing
HookStreams ==
  { FrameBytes(ContentFrame(<<233>>)) \o FrameBytes(DoneFrame),
    FrameBytes(ContentFrame(<<233>>)) \o FrameBytes(ContentFrame(<<97>>)),
    FrameBytes(ErrorFrame(<<98>>)) \o FrameBytes(ContentFrame(<<97>>)),
    FrameBytes(ErrorFrame(<<98>>)),
    MalformedLine \o FrameBytes(DoneFrame),
    <<>> }

\* the response is OK and has a body: lines 106-113
FetchOk ==
  /\ hook.pc = "fetching"
  /\ hook' = [hook EXCEPT !.pc = "reading"]
  /\ \E bytes \in HookStreams :
       /\ pipe' = bytes
       /\ wire' = bytes
  /\ tClosed' = TRUE
  /\ UNCHANGED <<messages, aborted>>
  /\ UNCHANGED encVars
  /\ UNCHANGED decVars
  /\ UNCHANGED instVars
  /\ UNCHANGED srvVars

\* reader.read() delivers a chunk: lines 116-148
HookRead ==
  /\ hook.pc = "reading"
  /\ \E k \in ChunkSizes :
       \E st \in {HookChunk([fullResponse |-> hook.fullResponse,
                              response |-> hook.response, calls |-> hook.calls,
                              messages |-> messages, returned |-> FALSE],
                             SubSeq(pipe, 1, k))} :
           /\ pipe' = SubSeq(pipe, k + 1, Len(pipe))
           /\ messages' = st.messages
           /\ \E h \in {[hook EXCEPT !.fullResponse = st.fullResponse,
                                      !.response = st.response,
                                      !.calls = st.calls]} :
                hook' = IF st.returned THEN HookReturn(h, st.fullResponse) ELSE h
  /\ UNCHANGED <<wire, tClosed, aborted>>
  /\ UNCHANGED encVars
  /\ UNCHANGED decVars
  /\ UNCHANGED instVars
  /\ UNCHANGED srvVars

\* reader.read() reports done: lines 118 and 151
HookEof ==
  /\ hook.pc = "reading"
  /\ pipe = <<>>
  /\ tClosed
  /\ hook' = HookReturn(hook, hook.fullResponse)
  /\ UNCHANGED <<messages, pipe, wire, tClosed, aborted>>
  /\ UNCHANGED encVars
  /\ UNCHANGED decVars
  /\ UNCHANGED instVars
  /\ UNCHANGED srvVars

\* reader.read() rejects: the connection is lost in the middle of the stream
HookReadFail ==
  /\ hook.pc = "reading"
  /\ pipe # <<>>
  /\ \E err \in ReadErrors : HookFails(err)

InitHook ==
  /\ encPc = "none"
  /\ nPulled = 0
  /\ logUnits = FALSE
  /\ pulled = <<>>
  /\ deltas = <<>>
  /\ srcEnd = "open"
  /\ srcErr = NoError
  /\ written = <<>>
  /\ closeCalls = 0
  /\ pipe = <<>>
  /\ wire = <<>>
  /\ tClosed = FALSE
  /\ aborted = FALSE
  /\ decPc = "none"
  /\ buffer = <<>>
  /\ decoder = DecoderInit
  /\ fullText = <<>>
  /\ calls = <<>>
  /\ parsed = <<>>
  /\ result = <<>>
  /\ released = 0
  /\ readErr = NoError
  /\ charCut = FALSE
  /\ hasBody = TRUE
  /\ readers = 0
  /\ other = NoCall
  /\ sameInstance = FALSE
  /\ hook = HookIdle
  /\ messages = <<>>
  /\ NoServer

NextHook ==
  \/ HandleSend
  \/ FetchRejects
  \/ FetchNotOk
  \/ FetchNoReader
  \/ FetchOk
  \/ HookRead
  \/ HookEof
  \/ HookReadFail

SpecHook == InitHook /\ [][NextHook]_vars


(***************************************************************************)
(* Reading a byte stream as a whole, for the statements below: its         *)
(* complete lines, and the frames among them.                              *)
(***************************************************************************)
Consumed == SubSeq(wire, 1, Len(wire) - Len(pipe))

Segments(bytes) == Split(DecodeStream(DecoderInit, bytes).out)

\* the lines a line feed has completed
CompleteLines(bytes) ==
  LET segs == Segments(bytes) IN SubSeq(segs, 1, Len(segs) - 1)

Payload(line) == SubSeq(line, Len(DataPrefix) + 1, Len(line))

\* a line that carries a frame: 'data: ' and the JSON text of an object
IsFrameLine(line) ==
  /\ StartsWith(line, DataPrefix)
  /\ LET json == JSONParse(Payload(line)) IN json.ok /\ json.v.t = "obj"

FramesOf(bytes) ==
  LET ls == SelectSeq(CompleteLines(bytes), IsFrameLine)
  IN  [i \in 1..Len(ls) |-> JSONParse(Payload(ls[i])).v]

HasError(f)  == Get(f, KeyError) # Undefined
HasDone(f)   == Get(f, KeyDone) = Bool(TRUE)
IsTerminal(f) == HasDone(f) \/ HasError(f)

\* the text a frame contributes: none when it carries an error
ContentOf(f) ==
  IF ~HasError(f) /\ Get(f, KeyContent).t = "str" THEN Get(f, KeyContent).s ELSE <<>>

Contents(fs) == SelectSeq([i \in 1..Len(fs) |-> ContentOf(fs[i])], LAMBDA t : t # <<>>)

ChunkCalls(texts) == [i \in 1..Len(texts) |-> Call("onChunk", texts[i])]

CallsOf(cb) == SelectSeq(calls, LAMBDA c : c.cb = cb)

Least(S) == CHOOSE i \in S : \A j \in S : i <= j

\* the handler calls and the result of processStream on a new processor
\* when the whole stream arrives as one chunk
OneChunk(bytes) ==
  LET dec == ProcessChunk([buffer |-> <<>>, decoder |-> DecoderInit, fullText |-> <<>>,
                           calls |-> <<>>, parsed |-> <<>>, returned |-> FALSE], bytes)
  IN  IF dec.returned
      THEN [calls |-> dec.calls, result |-> dec.fullText]
      ELSE [calls |-> Append(dec.calls, Call("onComplete", dec.fullText)),
            result |-> dec.fullText]


(***************************************************************************)
(* C1.  Round trip: when the generator has returned after yielding units   *)
(* whose non-empty texts are d1..dn, and processStream has resolved on the *)
(* bytes createStreamResponse wrote, the resolved text is d1 + ... + dn,   *)
(* onComplete was called once, with that text, and the onChunk calls are   *)
(* d1..dn.  processStream rejects only when the transport was aborted.     *)
(***************************************************************************)
RoundTrip ==
  /\ (srcEnd = "returned" /\ decPc = "resolved") =>
       /\ result = Flatten(deltas)
       /\ calls = Append(ChunkCalls(deltas), Call("onComplete", Flatten(deltas)))
  /\ decPc = "rejected" => aborted

RoundTripWitness ==
  /\ srcEnd = "returned"
  /\ decPc = "resolved"
  /\ deltas = << <<LF>>, <<233>> >>
  /\ charCut

(***************************************************************************)
(* C2.  Once the bytes read contain a complete frame line that carries an  *)
(* error field (and no done frame before it), processStream has rejected   *)
(* with that message, the last handler call is onError with it, and        *)
(* onComplete was not called.                                              *)
(***************************************************************************)
ErrorFrameRejects ==
  LET fs  == FramesOf(Consumed)
      err == {i \in 1..Len(fs) : HasError(fs[i])}
      fin == {i \in 1..Len(fs) : HasDone(fs[i]) /\ ~HasError(fs[i])}
  IN  (err # {} /\ \A i \in fin : Least(err) < i) =>
        LET msg == ToStr(Get(fs[Least(err)], KeyError))
        IN  /\ decPc = "rejected"
            /\ result = msg
            /\ calls # <<>>
            /\ calls[Len(calls)] = Call("onError", msg)
            /\ CallsOf("onComplete") = <<>>

(***************************************************************************)
(* C3.  Chunk-boundary invariance: however the reads cut the byte stream,  *)
(* processStream resolves with the text, and has made the handler calls,   *)
(* of the run in which the whole stream arrives as one chunk.              *)
(***************************************************************************)
ChunkInvariance ==
  decPc = "resolved" =>
    /\ calls = OneChunk(wire).calls
    /\ result = OneChunk(wire).result

\* a read has ended inside the two bytes of a character, and the stream
\* resolved with that character in its text
ChunkInvarianceWitness ==
  /\ decPc = "resolved"
  /\ charCut
  /\ \E i \in 1..Len(result) : result[i] = 233
  /\ Len(CallsOf("onChunk")) >= 2


(***************************************************************************)
(* The frames the encoder has written, read back from the bytes of each    *)
(* successful enqueue.                                                     *)
(***************************************************************************)
\* one write is one frame: 'data: ', a JSON object, two line feeds
IsFrameWrite(bytes) ==
  LET segs == Segments(bytes)
  IN  Len(segs) = 3 /\ segs[2] = <<>> /\ segs[3] = <<>> /\ IsFrameLine(segs[1])

WrittenFrame(i) == JSONParse(Payload(Segments(written[i])[1])).v

DoneWrites == {i \in 1..Len(written) : HasDone(WrittenFrame(i))}

EncoderFinished == encPc \in {"closed", "escaped"}

\* exactly one frame with done = true, the last one written, then the close
OneTerminalFrameLast ==
  /\ \A i \in 1..Len(written) : IsFrameWrite(written[i])
  /\ DoneWrites = {Len(written)}
  /\ Len(written) >= 1
  /\ tClosed

(***************************************************************************)
(* C4, as stated.  Every finished run of the encoder has written exactly   *)
(* one frame with done = true, as its last write before the close.         *)
(***************************************************************************)
OneTerminalFrameEveryRun == EncoderFinished => OneTerminalFrameLast

(***************************************************************************)
(* C4, amended.  Every run of the encoder in which the reader has not      *)
(* cancelled the transport before the last write ends closed with exactly  *)
(* one frame with done = true, its last write; no run writes a frame after *)
(* a frame with done = true; a run ends otherwise only when the transport  *)
(* was cancelled, and then it has written no frame with done = true.       *)
(***************************************************************************)
OneTerminalFrame ==
  /\ encPc = "closed" => OneTerminalFrameLast
  /\ encPc = "run" => DoneWrites = {} /\ ~tClosed
  /\ encPc = "escaped" => aborted /\ DoneWrites = {} /\ ~tClosed
  /\ (EncoderFinished /\ ~aborted) => encPc = "closed"

OneTerminalFrameWitness ==
  /\ encPc = "closed"
  /\ srcEnd = "returned"
  /\ ~aborted
  /\ Len(written) = 3

(***************************************************************************)
(* C5, as stated.  When the generator has thrown, the encoder has written  *)
(* the content frames of the earlier deltas, in order, then the frame      *)
(* {error: message, done: true}, no completion frame, and no exception     *)
(* has left the encoder.                                                   *)
(***************************************************************************)
ErrorFrameWritten ==
  /\ Len(written) = Len(deltas) + 1
  /\ \A i \in 1..Len(deltas) :
       /\ IsFrameWrite(written[i])
       /\ WrittenFrame(i) = ContentFrame(deltas[i])
  /\ IsFrameWrite(written[Len(written)])
  /\ WrittenFrame(Len(written)) =
       Obj(<< <<KeyError, Str(IF srcErr.isError THEN srcErr.message
                              ELSE StreamingFailed)>>,
              <<KeyDone, Bool(TRUE)>> >>)
  /\ \A i \in 1..Len(written) : written[i] # FrameBytes(DoneFrame)

SourceFailureFramed ==
  srcEnd = "threw" => ErrorFrameWritten /\ encPc # "escaped"

(***************************************************************************)
(* C5, amended.  The same, for a generator that throws while the reader    *)
(* has not cancelled the transport; when it throws after a cancellation    *)
(* nothing more is written.                                                *)
(***************************************************************************)
SourceFailureFramedUnlessCancelled ==
  /\ (srcEnd = "threw" /\ encPc = "closed") => ErrorFrameWritten
  /\ (srcEnd = "threw" /\ encPc # "closed") =>
       /\ encPc = "escaped"
       /\ aborted
       /\ Len(written) = Len(deltas)

SourceFailureFramedWitness ==
  /\ srcEnd = "threw"
  /\ encPc = "closed"
  /\ srcErr.isError
  /\ srcErr.message = <<98>>
  /\ Len(deltas) = 2

(***************************************************************************)
(* C6, as stated.  Every finished run of the encoder has called            *)
(* controller.close exactly once.                                          *)
(***************************************************************************)
ClosedOnceEveryRun == EncoderFinished => closeCalls = 1

(***************************************************************************)
(* C6, amended.  controller.close is never called twice; it is called      *)
(* exactly once in every run in which the reader has not cancelled the     *)
(* transport before the last write, and not at all in a run whose write    *)
(* failed because of the cancellation.                                     *)
(***************************************************************************)
ClosedOnce ==
  /\ closeCalls <= 1
  /\ tClosed <=> closeCalls = 1
  /\ encPc = "closed" <=> closeCalls = 1
  /\ (EncoderFinished /\ ~aborted) => closeCalls = 1
  /\ encPc = "escaped" => aborted

ClosedOnceWitness ==
  /\ closeCalls = 1
  /\ srcEnd = "threw"
  /\ ~aborted
  /\ deltas = <<>>


(***************************************************************************)
(* C7.  Once the bytes read contain a complete frame line with done = true *)
(* and no error field, processStream has resolved with the text of the     *)
(* frames up to and including the first such frame; its handler calls are  *)
(* the onChunk calls of those frames and then one onComplete with that     *)
(* text, and nothing of what follows the frame has been processed.         *)
(***************************************************************************)
DoneFrameCompletes ==
  LET fs  == FramesOf(Consumed)
      fin == {i \in 1..Len(fs) : HasDone(fs[i]) /\ ~HasError(fs[i])}
  IN  fin # {} =>
        LET texts == Contents(SubSeq(fs, 1, Least(fin)))
        IN  /\ decPc = "resolved"
            /\ result = Flatten(texts)
            /\ calls = Append(ChunkCalls(texts), Call("onComplete", Flatten(texts)))
            /\ released = 1

\* a done frame that carries content was parsed, after a content frame, and
\* the bytes that follow it were never read
DoneFrameCompletesWitness ==
  /\ decPc = "resolved"
  /\ calls = << Call("onChunk", <<233>>), Call("onChunk", <<97>>),
                Call("onComplete", <<233, 97>>) >>
  /\ pipe # <<>>

(***************************************************************************)
(* C8.  When the stream has ended and none of its complete lines is a      *)
(* frame with done = true or with an error field, processStream has        *)
(* resolved with the concatenation of the content frames; its handler      *)
(* calls are their onChunk calls and then one onComplete with that text,   *)
(* and no onError.  At the end of data the decoder has a step to take.     *)
(***************************************************************************)
EndOfDataCompletes ==
  LET fs == FramesOf(wire)
  IN  /\ (decPc = "resolved" /\ \A i \in 1..Len(fs) : ~IsTerminal(fs[i])) =>
           /\ result = Flatten(Contents(fs))
           /\ calls = Append(ChunkCalls(Contents(fs)),
                             Call("onComplete", Flatten(Contents(fs))))
           /\ released = 1
      /\ (decPc = "reading" /\ pipe = <<>> /\ tClosed /\ ~aborted) => ENABLED DecEof

\* the stream ended after two content frames and an unterminated tail
EndOfDataCompletesWitness ==
  /\ decPc = "resolved"
  /\ pipe = <<>>
  /\ buffer # <<>>
  /\ calls = << Call("onChunk", <<233>>), Call("onChunk", <<233>>),
                Call("onComplete", <<233, 233>>) >>

(***************************************************************************)
(* C9.  No onChunk call is made for a frame that comes after the first     *)
(* frame with done = true or with an error field: the onChunk calls are    *)
(* at most those of the frames up to and including that frame.             *)
(***************************************************************************)
NothingAfterTerminal ==
  LET fs  == FramesOf(Consumed)
      ter == {i \in 1..Len(fs) : IsTerminal(fs[i])}
  IN  ter # {} =>
        /\ Len(CallsOf("onChunk")) <= Len(Contents(SubSeq(fs, 1, Least(ter))))
        /\ Len(fullText) <= Len(Flatten(Contents(SubSeq(fs, 1, Least(ter)))))

(***************************************************************************)
(* C10.  Lines that do not start with 'data: ' and lines whose payload is  *)
(* not the JSON text of an object leave no trace: processStream resolves   *)
(* with the text, and makes the handler calls, of the run on the stream    *)
(* from which those lines have been removed.                               *)
(***************************************************************************)
Join(lines) ==
  Flatten([i \in 1..Len(lines) |-> IF i < Len(lines) THEN Append(lines[i], LF)
                                   ELSE lines[i]])

\* the stream without its complete lines that carry no frame
WithoutNoise(bytes) ==
  LET segs == Segments(bytes)
  IN  TextEncode(Join(Append(SelectSeq(SubSeq(segs, 1, Len(segs) - 1), IsFrameLine),
                             segs[Len(segs)])))

NoiseIgnored ==
  decPc = "resolved" =>
    /\ calls = OneChunk(WithoutNoise(wire)).calls
    /\ result = OneChunk(WithoutNoise(wire)).result

\* a malformed line came first, a content frame after it was dispatched
NoiseIgnoredWitness ==
  /\ decPc = "resolved"
  /\ StartsWith(wire, MalformedLine)
  /\ WithoutNoise(wire) # wire
  /\ CallsOf("onChunk") = << Call("onChunk", <<233>>) >>
  /\ Len(FramesOf(wire)) = 1


(***************************************************************************)
(* What the decoder has parsed so far, read back from the log of the       *)
(* strings handed to JSON.parse.                                           *)
(***************************************************************************)
\* the objects among the values JSON.parse returned, in order
ParsedFrames ==
  LET objs == SelectSeq(parsed, LAMBDA p : JSONParse(p).ok /\ JSONParse(p).v.t = "obj")
  IN  [i \in 1..Len(objs) |-> JSONParse(objs[i]).v]

\* the arguments of the onChunk calls made so far
ChunkArgs == LET cs == CallsOf("onChunk") IN [i \in 1..Len(cs) |-> cs[i].arg]

(***************************************************************************)
(* C11.  Accumulator invariant: at every point of a processStream call the *)
(* accumulated text is the concatenation, in order, of the contents of the *)
(* content frames parsed so far, and the concatenation of the arguments of *)
(* the onChunk calls made so far; every step leaves the accumulator as it  *)
(* is or appends to it.                                                    *)
(***************************************************************************)
AccumulatorInvariant ==
  /\ [](/\ fullText = Flatten(Contents(ParsedFrames))
        /\ fullText = Flatten(ChunkArgs))
  /\ [][StartsWith(fullText', fullText)]_vars

\* two content frames have been accumulated and the call is still reading
AccumulatorInvariantWitness ==
  /\ decPc = "reading"
  /\ fullText = <<233, 233>>
  /\ Len(parsed) = 2
  /\ pipe # <<>>

(***************************************************************************)
(* C12.  The reader, acquired before the call starts to read, is locked    *)
(* while the call reads and has been released exactly once when the call   *)
(* has settled, whichever way it settled: the return on a done frame, the  *)
(* return at the end of data, the rejection of a read.                     *)
(***************************************************************************)
ReleasedOnce ==
  /\ decPc = "reading" => released = 0
  /\ decPc \in {"resolved", "rejected"} => released = 1

\* a read was rejected after a content frame had been dispatched
ReleasedOnceWitness ==
  /\ decPc = "rejected"
  /\ released = 1
  /\ CallsOf("onChunk") # <<>>

(***************************************************************************)
(* C13.  Frames are dispatched in emission order, one call per frame: in   *)
(* every state, however the reads have cut the bytes, the arguments of the *)
(* onChunk calls made so far are the non-empty contents of the frames in   *)
(* the bytes read so far, in stream order.                                 *)
(***************************************************************************)
DispatchInOrder == ChunkArgs = Contents(FramesOf(Consumed))

\* two different deltas have been dispatched and the terminal frame is still
\* in flight
DispatchInOrderWitness ==
  /\ ChunkArgs = << <<233>>, <<LF>> >>
  /\ decPc = "reading"
  /\ pipe # <<>>
  /\ encPc = "closed"

(***************************************************************************)
(* The content frames the encoder has written, against the units pulled.   *)
(***************************************************************************)
\* the units pulled that carry a non-empty text
TextUnits == SelectSeq(pulled, LAMBDA u : Truthy(ExtractText(u)))

\* one write per unit: 'data: ', the JSON of {content, done: false}, two
\* line feeds
WritesFor(units) ==
  [i \in 1..Len(units) |-> FrameBytes(ContentFrame(ExtractText(units[i]).s))]

\* the writes before the terminal frame
ContentWrites ==
  IF encPc = "closed" THEN SubSeq(written, 1, Len(written) - 1) ELSE written

(***************************************************************************)
(* C14, as stated.  In every state the content writes are those of the     *)
(* units pulled so far that carry a non-empty text, one write a unit, in   *)
(* the order pulled; a unit without a text writes nothing and is not an    *)
(* error.                                                                  *)
(***************************************************************************)
OneWritePerUnitEveryRun ==
  /\ ContentWrites = WritesFor(TextUnits)
  /\ srcEnd = "open" => encPc = "run"

(***************************************************************************)
(* C14, amended.  The same while the reader has not cancelled the          *)
(* transport.  A unit with a non-empty text pulled after the cancellation  *)
(* is not written: its write fails and ends the encoder, which has then    *)
(* written the frames of all the earlier units and pulls no more.          *)
(***************************************************************************)
OneWritePerUnit ==
  /\ encPc \in {"run", "closed"} =>
       /\ ContentWrites = WritesFor(TextUnits)
       /\ srcEnd # "abandoned"
  /\ srcEnd = "open" => encPc = "run"
  /\ encPc = "escaped" =>
       /\ aborted
       /\ \/ srcEnd \in {"returned", "threw"} /\ ContentWrites = WritesFor(TextUnits)
          \/ /\ srcEnd = "abandoned"
             /\ Truthy(ExtractText(pulled[Len(pulled)]))
             /\ ContentWrites = WritesFor(SubSeq(TextUnits, 1, Len(TextUnits) - 1))

\* a unit without candidates was pulled, then a unit with a text: the one
\* write is the frame of e-acute
OneWritePerUnitWitness ==
  /\ Len(pulled) = 2
  /\ Len(written) = 1
  /\ ~pulled[1].candidates
  /\ encPc = "run"
  /\ written[1] = DataPrefix \o <<123, 34>> \o KeyContent \o <<34, 58, 34, 195, 169, 34, 44, 34>>
                  \o KeyDone \o <<34, 58>> \o LitFalse \o <<125, LF, LF>>

(***************************************************************************)
(* C15.  The state machine of a call: while it reads, neither onComplete   *)
(* nor onError has been called; when it has resolved, its last handler     *)
(* call is the one onComplete call, made with the resolved text, and there *)
(* is no onError call; when it has rejected, its last handler call is the  *)
(* one onError call, made with the rejection, and there is no onComplete   *)
(* call; a settled call makes no further call and does not change state.   *)
(***************************************************************************)
SettlesOnce ==
  /\ [](/\ decPc = "reading" =>
             CallsOf("onComplete") = <<>> /\ CallsOf("onError") = <<>>
        /\ decPc = "resolved" =>
             /\ CallsOf("onComplete") = << Call("onComplete", result) >>
             /\ CallsOf("onError") = <<>>
             /\ calls[Len(calls)].cb = "onComplete"
        /\ decPc = "rejected" =>
             /\ CallsOf("onError") = << Call("onError", result) >>
             /\ CallsOf("onComplete") = <<>>
             /\ calls[Len(calls)].cb = "onError")
  /\ [][decPc # "reading" => UNCHANGED <<decPc, calls, result, fullText>>]_vars

\* a call completed by the done frame after two content frames, the encoder
\* having closed the transport
SettlesOnceWitness ==
  /\ decPc = "resolved"
  /\ Len(calls) = 3
  /\ pipe = <<>>
  /\ encPc = "closed"

(***************************************************************************)
(* C16.  A read that rejects: when processStream has rejected, the read    *)
(* rejected on a cancelled transport; onError was called once, with the    *)
(* value the read rejected with when that is an Error and with 'Unknown    *)
(* streaming error' when it is not; onComplete was not called; the promise *)
(* rejects with what onError received; and the calls before the onError    *)
(* call are the onChunk calls of the content frames read until then.       *)
(***************************************************************************)
ReadFailureReported ==
  decPc = "rejected" =>
    LET err == IF readErr.isError THEN readErr.message ELSE UnknownStreamingError
    IN  /\ aborted
        /\ err # <<>>
        /\ result = err
        /\ CallsOf("onComplete") = <<>>
        /\ calls = Append(ChunkCalls(Contents(FramesOf(Consumed))), Call("onError", err))
        /\ fullText = Flatten(Contents(FramesOf(Consumed)))

\* a read rejects with a value that is not an Error, after one content frame
\* was dispatched and with bytes of the next still on the transport
ReadFailureReportedWitness ==
  /\ decPc = "rejected"
  /\ ~readErr.isError
  /\ result = UnknownStreamingError
  /\ Len(calls) = 2
  /\ pipe # <<>>

(***************************************************************************)
(* C17.  A response without a body: the first step of the call rejects it  *)
(* with an error; no reader is ever acquired, no handler is called (so     *)
(* neither onChunk nor onComplete), nothing is parsed and nothing is       *)
(* accumulated.                                                            *)
(***************************************************************************)
NoBodyRejects ==
  ~hasBody =>
    /\ decPc \in {"called", "rejected"}
    /\ decPc = "rejected" => result = ResponseBodyIsNull
    /\ readers = 0
    /\ released = 0
    /\ calls = <<>>
    /\ parsed = <<>>
    /\ fullText = <<>>

NoBodyRejectsWitness ==
  /\ ~hasBody
  /\ decPc = "rejected"
  /\ result = ResponseBodyIsNull
  /\ readers = 0

(***************************************************************************)
(* C18.  Concurrent streams are independent: whenever one of two calls in  *)
(* flight at the same time has resolved, on one instance or on two, its    *)
(* resolved text and its handler calls are those of that call alone on its *)
(* own bytes.                                                              *)
(***************************************************************************)
StreamsIndependent ==
  /\ decPc = "resolved" =>
       result = OneChunk(wire).result /\ calls = OneChunk(wire).calls
  /\ other.decPc = "resolved" =>
       other.result = OneChunk(other.wire).result /\ other.calls = OneChunk(other.wire).calls

\* the same, for calls that have an instance each
InstancesIndependent == ~sameInstance => StreamsIndependent

(***************************************************************************)
(* C19.  The decode buffer does not outlive its stream: a call made on the *)
(* instance after an earlier call has ended, without reset(), has an empty *)
(* buffer before its first read, and when it has resolved its resolved     *)
(* text and its handler calls are those of a new instance on the same      *)
(* bytes.                                                                  *)
(***************************************************************************)
BufferEndsWithStream ==
  other # NoCall =>
    /\ (decPc = "reading" /\ pipe = wire) => buffer = <<>>
    /\ decPc = "resolved" =>
         result = OneChunk(wire).result /\ calls = OneChunk(wire).calls

\* the payloads of the lines of the bytes read that a line feed has completed
\* and that start with 'data: ', in order
CompletedPayloads ==
  LET ls == SelectSeq(CompleteLines(Consumed), LAMBDA l : StartsWith(l, DataPrefix))
  IN  [i \in 1..Len(ls) |-> Payload(ls[i])]

\* the text after the last line feed of the bytes read
UnterminatedTail == LET segs == Segments(Consumed) IN segs[Len(segs)]

(***************************************************************************)
(* C20.  Only completed lines are parsed: the strings handed to JSON.parse *)
(* are, in order, payloads of the lines of the decoded stream that a line  *)
(* feed has completed (all of them while the call reads); the text after   *)
(* the last line feed is the buffer, while the call reads and after it has *)
(* ended, and it is not parsed when the data ends with it.                 *)

(***************************************************************************)
(* The two chat routes of the server: POST /api/chat-stream and            *)
(* POST /api/chats/:routeName, each handing a generation source to         *)
(* createStreamResponse.                                                   *)
(***************************************************************************)
User(id) == [id |-> id, email |-> id]

\* SHA-256 of the key, in hex: one value per key, none of them a key
hashApiKey(apiKey) == 1000 + apiKey

ApiKey(id, userId, hash, uses) ==
  [id |-> id, user_id |-> userId, key_hash |-> hash, last_used |-> uses]

CustomRoute(id, userId, name, description) ==
  [id |-> id, user_id |-> userId, route_name |-> name,
   description |-> description]

Context(id, routeId) == [id |-> id, route_id |-> routeId]

\* two users with a key each (the keys 1 and 2); each owns a route with one
\* context, u1 the route named r
SeedDb ==
  [users         |-> {User("u1"), User("u2")},
   api_keys      |-> {ApiKey(1, "u1", hashApiKey(1), 0),
                      ApiKey(2, "u2", hashApiKey(2), 0)},
   custom_routes |-> {CustomRoute(1, "u1", "r", 0),
                      CustomRoute(2, "u2", "s", 0)},
   contexts      |-> {Context(1, 1), Context(2, 2)}]

\* SELECT ... FROM custom_routes WHERE route_name = ...: rows[0], or undefined
getCustomRouteByName(routeName) ==
  {r \in db.custom_routes : r.route_name = routeName}

\* 'generator is not async iterable', the TypeError of a for-await over a
\* value that has no Symbol.asyncIterator and no Symbol.iterator
NotAsyncIterable ==
  << 103, 101, 110, 101, 114, 97, 116, 111, 114, 32, 105, 115, 32, 110,
     111, 116, 32, 97, 115, 121, 110, 99, 32, 105, 116, 101, 114, 97, 98,
     108, 101 >>

\* the message texts a chat request carries: none, and 'h'
ChatTexts == { <<>>, <<104>> }

Answer(path, status, given) ==
  [path |-> path, status |-> status, given |-> given]

\* createStreamResponse(generator): start runs at once, up to its first await.
\* Given an async iterable it waits for the first unit; given a Promise, the
\* for-await throws before anything is pulled and the catch block writes the
\* error frame and closes, nobody having been able to cancel yet.
CreateStreamResponse(given) ==
  IF given = "asyncIterable"
  THEN /\ encPc' = "run"
       /\ srcEnd' = "open"
       /\ UNCHANGED <<srcErr, written, pipe, wire, closeCalls, tClosed>>
  ELSE /\ srcEnd' = "unused"
       /\ srcErr' = [isError |-> TRUE, message |-> NotAsyncIterable]
       /\ EnqueueAndClose(FrameBytes(ErrorFrame(NotAsyncIterable)))

\* POST /api/chats/:routeName: the body has no messages array. The call of
\* generateStreamResponse, an async method, is not awaited: what goes to
\* createStreamResponse is the Promise of the generator.
PostChats ==
  /\ encPc = "none"
  /\ answered = <<>>
  /\ \E routeName \in {"r", "zz"}, message \in ChatTexts :
       IF message = <<>>
       THEN /\ answered' = Append(answered, Answer("chats", 400, "none"))
            /\ UNCHANGED <<encPc, srcEnd, srcErr, written, pipe, wire,
                           closeCalls, tClosed>>
       ELSE IF getCustomRouteByName(routeName) = {}
       THEN /\ answered' = Append(answered, Answer("chats", 404, "none"))
            /\ UNCHANGED <<encPc, srcEnd, srcErr, written, pipe, wire,
                           closeCalls, tClosed>>
       ELSE /\ answered' = Append(answered, Answer("chats", 200, "promise"))
            /\ CreateStreamResponse("promise")
  /\ UNCHANGED <<nPulled, logUnits, pulled, deltas, aborted, db, inflight>>
  /\ UNCHANGED decVars
  /\ UNCHANGED instVars
  /\ UNCHANGED uiVars

\* POST /api/chat-stream: the generator of genaiService.chatStream is awaited;
\* a rejection is answered with 500
PostChatStream ==
  /\ encPc = "none"
  /\ answered = <<>>
  /\ \E message \in ChatTexts, rejects \in BOOLEAN :
       IF message = <<>>
       THEN /\ answered' = Append(answered, Answer("chat-stream", 400, "none"))
            /\ UNCHANGED <<encPc, srcEnd, srcErr, written, pipe, wire,
                           closeCalls, tClosed>>
       ELSE IF rejects
       THEN /\ answered' = Append(answered, Answer("chat-stream", 500, "none"))
            /\ UNCHANGED <<encPc, srcEnd, srcErr, written, pipe, wire,
                           closeCalls, tClosed>>
       ELSE /\ answered' =
                 Append(answered, Answer("chat-stream", 200, "asyncIterable"))
            /\ CreateStreamResponse("asyncIterable")
  /\ UNCHANGED <<nPulled, logUnits, pulled, deltas, aborted, db, inflight>>
  /\ UNCHANGED decVars
  /\ UNCHANGED instVars
  /\ UNCHANGED uiVars

InitRoute ==
  /\ encPc = "none"
  /\ nPulled = 0
  /\ logUnits = TRUE
  /\ pulled = <<>>
  /\ deltas = <<>>
  /\ srcEnd = "unused"
  /\ srcErr = NoError
  /\ written = <<>>
  /\ closeCalls = 0
  /\ pipe = <<>>
  /\ wire = <<>>
  /\ tClosed = FALSE
  /\ aborted = FALSE
  /\ DecInit
  /\ hasBody = TRUE
  /\ readers = 1
  /\ other = NoCall
  /\ sameInstance = FALSE
  /\ NoChat
  /\ db = SeedDb
  /\ inflight = {}
  /\ answered = <<>>

NextRoute ==
  PostChats \/ PostChatStream \/ EncYield \/ EncReturn \/ EncThrow \/ Abort

SpecRoute == InitRoute /\ [][NextRoute]_vars


(***************************************************************************)
(* The admin API: POST /api/admin/keys, PUT, DELETE and GET                *)
(* /api/admin/routes/:id, and the context endpoints under a route.  A      *)
(* handler runs from one await of the database to the next, and the        *)
(* handlers of several requests interleave at these points.                *)
(***************************************************************************)
MaxRequests == 2     \* requests the admin API receives

RouteOps ==
  {"PUT route", "DELETE route", "GET route", "POST context", "DELETE context",
   "GET contexts"}

\* what a request carries. key: the API key of the Authorization or X-API-Key
\* header, 0 when there is none, 9 a key that was never issued; email: the
\* email of the body, "" when there is none; id and ctx: the route and the
\* context of the path, 9 a route that does not exist; body: whether the
\* body asks for something valid
AdminRequests ==
  [op : {"POST keys"}, key : {0, 1, 2, 9}, email : {"", "u1", "zz"},
   id : {1}, ctx : {1}, body : {TRUE}]
  \cup [op : RouteOps \ {"DELETE context"}, key : {0, 1, 2, 9}, email : {""},
        id : {1, 2, 9}, ctx : {1}, body : BOOLEAN]
  \cup [op : {"DELETE context"}, key : {0, 1, 2, 9}, email : {""},
        id : {1, 2, 9}, ctx : {1, 2}, body : {TRUE}]

\* a row that a handler has changed or has put in its response, with the
\* user it belongs to
Touch(kind, table, id, owner) ==
  [kind |-> kind, table |-> table, id |-> id, owner |-> owner]

\* validateApiKey: the api_keys row of the key, if there is one
validateApiKey(apiKey) ==
  IF apiKey = 0 THEN {}
  ELSE {k \in db.api_keys : k.key_hash = hashApiKey(apiKey)}

\* UPDATE api_keys SET last_used = CURRENT_TIMESTAMP WHERE key_hash = ...
updateApiKeyLastUsed(d, keyHash) ==
  [d EXCEPT !.api_keys =
     {IF k.key_hash = keyHash THEN [k EXCEPT !.last_used = @ + 1] ELSE k :
        k \in @}]

getCustomRouteById(id) == {r \in db.custom_routes : r.id = id}

\* UPDATE custom_routes SET ... WHERE id = ... AND user_id = ...
updateCustomRoute(d, id, userId) ==
  [d EXCEPT !.custom_routes =
     {IF r.id = id /\ r.user_id = userId
      THEN [r EXCEPT !.description = @ + 1] ELSE r : r \in @}]

\* DELETE FROM custom_routes WHERE id = ... AND user_id = ..., the contexts
\* of the route going with it (ON DELETE CASCADE)
deleteCustomRoute(d, id, userId) ==
  LET gone == {r \in d.custom_routes : r.id = id /\ r.user_id = userId} IN
  [d EXCEPT !.custom_routes = @ \ gone,
            !.contexts = {c \in @ : \A r \in gone : c.route_id # r.id}]

\* DELETE FROM contexts WHERE id = ... AND route_id = ...
deleteContext(d, id, routeId) ==
  [d EXCEPT !.contexts = {c \in @ : ~(c.id = id /\ c.route_id = routeId)}]

listContextsByRoute(routeId) == {c \in db.contexts : c.route_id = routeId}

\* the handler of r goes on as r2
GoOn(r, r2) ==
  /\ inflight' = (inflight \ {r}) \cup {r2}
  /\ UNCHANGED answered

\* the handler of r returns a response
Respond(r, status, wrote, returned) ==
  /\ inflight' = inflight \ {r}
  /\ answered' = Append(answered,
       [n |-> r.n, op |-> r.op, key |-> r.key, email |-> r.email, id |-> r.id,
        ctx |-> r.ctx, status |-> status, user |-> r.user, wrote |-> wrote,
        returned |-> returned])

\* a request arrives
Arrive ==
  /\ Len(answered) + Cardinality(inflight) < MaxRequests
  /\ \E req \in AdminRequests :
       inflight' = inflight \cup
         {[n |-> Len(answered) + Cardinality(inflight) + 1, op |-> req.op,
           key |-> req.key, email |-> req.email, id |-> req.id,
           ctx |-> req.ctx, body |-> req.body, pc |-> "auth",
           user |-> "none", wrote |-> {}]}
  /\ UNCHANGED <<db, answered>>
  /\ UNCHANGED <<pipe, wire, tClosed, aborted>>
  /\ UNCHANGED encVars
  /\ UNCHANGED decVars
  /\ UNCHANGED instVars
  /\ UNCHANGED uiVars

\* authenticateRequest, and what each handler does with its result: a valid
\* key has its last_used set; without one the route and context handlers
\* answer 401, and so does POST keys unless the body has an email
Authenticate ==
  /\ \E r \in {q \in inflight : q.pc = "auth"} :
       LET rows == validateApiKey(r.key) IN
       IF rows # {}
       THEN \E k \in rows :
              /\ db' = updateApiKeyLastUsed(db, k.key_hash)
              /\ GoOn(r, [r EXCEPT
                   !.pc = IF r.op = "POST keys" THEN "create" ELSE "lookup",
                   !.user = k.user_id,
                   !.wrote = {Touch("update", "api_keys", k.id, k.user_id)}])
       ELSE /\ UNCHANGED db
            /\ IF r.op = "POST keys" /\ r.email # ""
               THEN GoOn(r, [r EXCEPT !.pc = "create"])
               ELSE Respond(r, 401, {}, {})
  /\ UNCHANGED <<pipe, wire, tClosed, aborted>>
  /\ UNCHANGED encVars
  /\ UNCHANGED decVars
  /\ UNCHANGED instVars
  /\ UNCHANGED uiVars

\* POST /api/admin/keys after the authentication: the key is for the user
\* of the presented key or, with no valid key, for the user of the email
PostKeys ==
  /\ \E r \in {q \in inflight : q.pc = "create"} :
       LET users == IF r.user # "none" THEN {r.user}
                    ELSE {u.id : u \in {v \in db.users : v.email = r.email}}
       IN
       IF users = {}
       THEN /\ Respond(r, 404, r.wrote, {})
            /\ UNCHANGED db
       ELSE \E userId \in users :
              /\ db' = [db EXCEPT !.api_keys =
                          @ \cup {ApiKey(10 + r.n, userId,
                                         hashApiKey(10 + r.n), 0)}]
              /\ Respond(r, 200,
                         r.wrote \cup
                           {Touch("insert", "api_keys", 10 + r.n, userId)},
                         {})
  /\ UNCHANGED <<pipe, wire, tClosed, aborted>>
  /\ UNCHANGED encVars
  /\ UNCHANGED decVars
  /\ UNCHANGED instVars
  /\ UNCHANGED uiVars

\* variant: the route of another user passes
RouteLookupAnyUser ==
  /\ \E r \in {q \in inflight : q.pc = "lookup"} :
       LET route == getCustomRouteById(r.id) IN
       IF route = {}
       THEN Respond(r, 404, r.wrote, {})
       ELSE \E row \in route :
              IF r.op = "GET route"
              THEN Respond(r, 200, r.wrote,
                           {Touch("read", "custom_routes", row.id, row.user_id)})
              ELSE GoOn(r, [r EXCEPT !.pc = "act"])
  /\ UNCHANGED db
  /\ UNCHANGED <<pipe, wire, tClosed, aborted>>
  /\ UNCHANGED encVars
  /\ UNCHANGED decVars
  /\ UNCHANGED instVars
  /\ UNCHANGED uiVars

\* the route and context handlers after the authentication: the route is
\* looked up, 404 if there is none, 403 if it is another user's; GET route
\* answers with the row it has just read
RouteLookup ==
  /\ \E r \in {q \in inflight : q.pc = "lookup"} :
       LET route == getCustomRouteById(r.id) IN
       IF route = {}
       THEN Respond(r, 404, r.wrote, {})
       ELSE \E row \in route :
              IF row.user_id # r.user
              THEN Respond(r, 403, r.wrote, {})
              ELSE IF r.op = "GET route"
              THEN Respond(r, 200, r.wrote,
                           {Touch("read", "custom_routes", row.id, row.user_id)})
              ELSE GoOn(r, [r EXCEPT !.pc = "act"])
  /\ UNCHANGED db
  /\ UNCHANGED <<pipe, wire, tClosed, aborted>>
  /\ UNCHANGED encVars
  /\ UNCHANGED decVars
  /\ UNCHANGED instVars
  /\ UNCHANGED uiVars

\* the rows of the two tables that d has and e has not
RowsGone(d, e) ==
  {Touch("delete", "custom_routes", r.id, r.user_id) :
     r \in d.custom_routes \ e.custom_routes}
  \cup {Touch("delete", "contexts", c.id, o.user_id) :
          <<c, o>> \in {<<x, y>> \in (d.contexts \ e.contexts) \X d.custom_routes :
                          y.id = x.route_id}}

\* the statement that each handler runs once the route has passed: the
\* update, the delete, the insert of a context (refused by the foreign key
\* when the route has gone meanwhile), the delete of a context, the list
RouteOperate ==
  /\ \E r \in {q \in inflight : q.pc = "act"} :
       LET owners == {x.user_id : x \in getCustomRouteById(r.id)} IN
       CASE r.op = "PUT route" ->
              IF ~r.body \/ \A o \in owners : o # r.user
              THEN /\ Respond(r, 400, r.wrote, {})
                   /\ UNCHANGED db
              ELSE /\ db' = updateCustomRoute(db, r.id, r.user)
                   /\ Respond(r, 200,
                        r.wrote \cup
                          {Touch("update", "custom_routes", r.id, r.user)},
                        {Touch("read", "custom_routes", r.id, r.user)})
         [] r.op = "DELETE route" ->
              /\ db' = deleteCustomRoute(db, r.id, r.user)
              /\ Respond(r, 200,
                   r.wrote \cup RowsGone(db, deleteCustomRoute(db, r.id, r.user)),
                   {})
         [] r.op = "POST context" ->
              IF ~r.body
              THEN /\ Respond(r, 400, r.wrote, {})
                   /\ UNCHANGED db
              ELSE IF owners = {}
              THEN /\ Respond(r, 500, r.wrote, {})
                   /\ UNCHANGED db
              ELSE \E o \in owners :
                     /\ db' = [db EXCEPT !.contexts =
                                 @ \cup {Context(10 + r.n, r.id)}]
                     /\ Respond(r, 200,
                          r.wrote \cup {Touch("insert", "contexts", 10 + r.n, o)},
                          {Touch("read", "contexts", 10 + r.n, o)})
         [] r.op = "DELETE context" ->
              /\ db' = deleteContext(db, r.ctx, r.id)
              /\ Respond(r, 200,
                   r.wrote \cup RowsGone(db, deleteContext(db, r.ctx, r.id)),
                   {})
         [] r.op = "GET contexts" ->
              /\ UNCHANGED db
              /\ Respond(r, 200, r.wrote,
                   {Touch("read", "contexts", c.id, o) :
                      <<c, o>> \in listContextsByRoute(r.id) \X owners})
  /\ UNCHANGED <<pipe, wire, tClosed, aborted>>
  /\ UNCHANGED encVars
  /\ UNCHANGED decVars
  /\ UNCHANGED instVars
  /\ UNCHANGED uiVars

InitAdmin ==
  /\ encPc = "none"
  /\ nPulled = 0
  /\ logUnits = TRUE
  /\ pulled = <<>>
  /\ deltas = <<>>
  /\ srcEnd = "unused"
  /\ srcErr = NoError
  /\ written = <<>>
  /\ closeCalls = 0
  /\ pipe = <<>>
  /\ wire = <<>>
  /\ tClosed = FALSE
  /\ aborted = FALSE
  /\ DecInit
  /\ hasBody = TRUE
  /\ readers = 1
  /\ other = NoCall
  /\ sameInstance = FALSE
  /\ NoChat
  /\ db = SeedDb
  /\ inflight = {}
  /\ answered = <<>>

NextAdmin == Arrive \/ Authenticate \/ PostKeys \/ RouteLookup \/ RouteOperate

SpecAdmin == InitAdmin /\ [][NextAdmin]_vars

(***************************************************************************)
OnlyCompletedLinesParsed ==
  /\ Len(parsed) <= Len(CompletedPayloads)
  /\ parsed = SubSeq(CompletedPayloads, 1, Len(parsed))
  /\ decPc = "reading" => parsed = CompletedPayloads
  /\ buffer = UnterminatedTail

\* the data ended with a whole frame that no line feed completed: the frame
\* before it was parsed and dispatched, the tail was not
OnlyCompletedLinesParsedWitness ==
  /\ decPc = "resolved"
  /\ pipe = <<>>
  /\ buffer = DataPrefix \o JSONStringify(ContentFrame(<<97>>))
  /\ Len(parsed) = 1
  /\ result = <<233>>

\* the calls of the hook to one of its callbacks, and their arguments
HookCallsOf(cb) == SelectSeq(hook.calls, LAMBDA c : c.cb = cb)
HookChunkArgs ==
  LET cs == HookCallsOf("onStreamChunk") IN [i \in 1..Len(cs) |-> cs[i].arg]

\* chatStream on a stream that arrives in one chunk: the loop state after it
HookOneChunk(bytes) ==
  HookChunk([fullResponse |-> <<>>, response |-> Str(<<>>), calls |-> <<>>,
             messages |-> <<>>, returned |-> FALSE], bytes)

(***************************************************************************)
(* C21.  chatStream does not depend on the chunking: when a call has       *)
(* resolved, however the transport split the stream into chunks, the text  *)
(* it returns and the arguments of its onStreamChunk calls are those of    *)
(* the same stream arriving in one chunk.                                  *)
(***************************************************************************)
HookChunkInvariance ==
  hook.pc = "resolved" =>
    LET cs == SelectSeq(HookOneChunk(wire).calls, LAMBDA c : c.cb = "onStreamChunk")
    IN  /\ hook.result = HookOneChunk(wire).fullResponse
        /\ HookChunkArgs = [i \in 1..Len(cs) |-> cs[i].arg]

(***************************************************************************)
(* C22.  An error frame fails chatStream: when the first frame of the      *)
(* response that the call has read whole is an error frame, the call has   *)
(* rejected with the frame's message, the error state of the hook is that  *)
(* message, onError was called with it, onStreamComplete and onSuccess     *)
(* were not called, and the assistant message shows the failure text and   *)
(* is not streaming.                                                       *)
(***************************************************************************)
HookErrorFrameRejects ==
  LET fs == FramesOf(Consumed)
  IN  (hook.pc \in {"reading", "resolved", "rejected"} /\ fs # <<>> /\ HasError(fs[1])) =>
        LET msg == ToStr(Get(fs[1], KeyError))
        IN  /\ hook.pc = "rejected"
            /\ hook.result = msg
            /\ hook.error = Str(msg)
            /\ HookCallsOf("onError") = << Call("onError", msg) >>
            /\ HookCallsOf("onStreamComplete") = <<>>
            /\ HookCallsOf("onSuccess") = <<>>
            /\ messages[Len(messages)] = Message("assistant", SorryText, FALSE)

(***************************************************************************)
(* C23.  No assistant message stays marked in progress: when the           *)
(* chatStream call that handleSend started has settled, the assistant      *)
(* message that handleSend appended, and every message before it, has      *)
(* isStreaming = false.                                                    *)
(***************************************************************************)
NoMessageLeftStreaming ==
  hook.pc \in {"resolved", "rejected"} =>
    \A i \in 1..Len(messages) : ~messages[i].isStreaming

(***************************************************************************)
(* C24.  Cancellation reaches the producer: once a write to the transport  *)
(* has failed the encoder pulls no further unit from the generator, and    *)
(* once the consumer has cancelled the transport nothing more is written   *)
(* to it.                                                                  *)
(***************************************************************************)
CancellationStopsProducer ==
  /\ [][(srcEnd = "abandoned" \/ encPc = "escaped") =>
          UNCHANGED <<nPulled, pulled, srcEnd>>]_vars
  /\ [][aborted => UNCHANGED <<written, pipe, wire>>]_vars
  /\ [](srcEnd = "abandoned" => aborted /\ encPc = "escaped")

\* the write of the first unit failed on a cancelled transport, and the
\* generator had more to give
CancellationStopsProducerWitness ==
  /\ aborted
  /\ encPc = "escaped"
  /\ srcEnd = "abandoned"
  /\ Len(pulled) = 1
  /\ nPulled < MaxUnits
  /\ written = <<>>

(***************************************************************************)
(* C25.  No failure crashes the write path: in every run of the start      *)
(* routine, also when the consumer has cancelled the transport, no         *)
(* exception leaves the routine.                                           *)
(***************************************************************************)
NoExceptionEscapes == encPc # "escaped"

(***************************************************************************)
(* C26: POST /api/chats/:routeName for an existing route and a non-empty   *)
(* message gives createStreamResponse an asynchronously iterable source,   *)
(* and the stream it answers with carries the text deltas in order in its  *)
(* content frames and ends with the frame {content:'', done:true}.         *)
(***************************************************************************)
ChatsRouteStreams ==
  \A i \in 1..Len(answered) :
    (answered[i].path = "chats" /\ answered[i].status = 200) =>
      /\ answered[i].given = "asyncIterable"
      /\ encPc = "closed" =>
           /\ written # <<>>
           /\ written[Len(written)] = FrameBytes(DoneFrame)
           /\ SubSeq(written, 1, Len(written) - 1)
                = [k \in 1..Len(deltas) |-> FrameBytes(ContentFrame(deltas[k]))]

(***************************************************************************)
(* C27.  The request of chatStream goes to the endpoint that handleSend    *)
(* put in the request: the endpoint of the selected route, and             *)
(* /api/chat-stream only for the default route or an unknown one.          *)
(***************************************************************************)
RequestGoesToEndpoint ==
  hook.pc # "idle" => hook.url = hook.endpoint

(***************************************************************************)
(* C28.  The busy flags bracket each chatStream call: isLoading and        *)
(* isStreaming are true while the call is in progress and both false once  *)
(* it has settled, on whatever path, so that the guard of handleSend lets  *)
(* the next message through.                                               *)
(***************************************************************************)
BusyFlagsBracket ==
  /\ hook.pc \in {"fetching", "reading"} =>
       hook.isLoading /\ hook.isStreaming
  /\ hook.pc \in {"resolved", "rejected"} =>
       ~hook.isLoading /\ ~hook.isStreaming

\* a second message is on its way after the call for the first one returned
\* at the end of a stream without a done frame
BusyFlagsBracketWitness ==
  /\ Len(messages) = MaxMessages
  /\ messages[2].isStreaming
  /\ hook.pc = "reading"
  /\ hook.isLoading

\* the user a presented key belongs to, "none" for a key that is not valid
KeyUser(key) ==
  IF validateApiKey(key) = {} THEN "none"
  ELSE (CHOOSE k \in validateApiKey(key) : TRUE).user_id

(***************************************************************************)
(* C29.  POST /api/admin/keys creates a key bound to a user only for a     *)
(* request whose own API key is valid and belongs to that user: a request  *)
(* without a valid key creates no key for an existing user.                *)
(***************************************************************************)
KeysOnlyForKeyHolder ==
  \A i \in 1..Len(answered) :
    \A k \in db.api_keys :
      (answered[i].op = "POST keys" /\ k.id = 10 + answered[i].n) =>
        k.user_id = KeyUser(answered[i].key)

\* the owners of the route with this id, before or after a step
OwnersOf(id, d, e) ==
  {r.user_id : r \in {x \in d.custom_routes \cup e.custom_routes : x.id = id}}

\* a step changes a custom route or a context only on behalf of a request
\* that is authenticated as the owner of the route and names it in its path
OnlyOwnerChanges ==
  /\ \A r \in (db.custom_routes \ db'.custom_routes)
                \cup (db'.custom_routes \ db.custom_routes) :
       \E q \in inflight :
         q.op \in RouteOps /\ q.id = r.id /\ KeyUser(q.key) = r.user_id
  /\ \A c \in (db.contexts \ db'.contexts) \cup (db'.contexts \ db.contexts) :
       \E q \in inflight :
         /\ q.op \in RouteOps
         /\ q.id = c.route_id
         /\ OwnersOf(c.route_id, db, db') = {KeyUser(q.key)}

\* what the answers of the route and context endpoints show: 401 without a
\* valid key, 404 for a route that is not there, 403 for another user's
\* route, and rows in a response only for the owner of the route
OwnerOnlyAnswers ==
  \A i \in 1..Len(answered) :
    LET a == answered[i] IN
    a.op \in RouteOps =>
      /\ KeyUser(a.key) = "none" <=> a.status = 401
      /\ (KeyUser(a.key) # "none" /\ a.id = 9) => a.status = 404
      /\ (KeyUser(a.key) # "none" /\ a.id # 9
            /\ OwnersOf(a.id, SeedDb, SeedDb) # {KeyUser(a.key)}) =>
           \/ a.status = 403
           \/ a.status = 404 /\ getCustomRouteById(a.id) = {}
      /\ a.status \in {401, 403, 404} => a.returned = {}
      /\ \A t \in a.returned : t.owner = KeyUser(a.key)

\* every request so far was one to these endpoints and was refused
AllRefused ==
  /\ inflight = {}
  /\ \A i \in 1..Len(answered) :
       answered[i].op \in RouteOps /\ answered[i].status \in {401, 403, 404}

=============================================================================
